---- MODULE Spec2Model ----
(***************************************************************************)
(* Lead-generation pipeline of siyaida/leads-railway.                      *)
(*                                                                         *)
(* State machine of one pipeline run (app/services/pipeline_service.py),   *)
(* the in-memory activity log (app/services/pipeline_log.py), the provider *)
(* adapters as far as the orchestrator sees them, and the lead-editing     *)
(* endpoint (app/api/leads.py) that runs concurrently in the thread pool.  *)
(*                                                                         *)
(* Conventions                                                             *)
(*  - strings are drawn from small sets; " " stands for any whitespace-    *)
(*    only string, so that str.strip() and truthiness differ as in Python. *)
(*  - percentages are kept in tenths of a percent (round(pct, 1) * 10).    *)
(*  - the run is cut into steps at every database operation and every      *)
(*    await; a step whose first statement is a database operation may      *)
(*    raise instead (InternalFault), which enters the except-handler.      *)
(***************************************************************************)
EXTENDS Integers, Sequences, FiniteSets, TLC

\* ---------------------------------------------------------------- bounds
MaxPerQuery == 1        \* organic items returned for one search query
MaxEdits == 1           \* PATCH /api/leads/{id} requests during one run

MaxLog == 2             \* entries appended to the log of one run
MaxBatch == 6           \* items of the fan-out batch of run "r1"

MaxHits == 2            \* items of one query's answer when search is exercised alone

MaxRequests == 2        \* POST /api/pipeline/run requests served
MaxDrafts == 1          \* generate_email calls of one launched run

MaxResults == 27        \* search results of a run when the caps are exercised
MaxDomains == 17        \* distinct domains among them

MaxStubs == 2           \* people of one Apollo search answer

\* ------------------------------------------------------ program constants
ScrapeCap == 25         \* urls_to_scrape = [...][:25]
DomainCap == 15         \* unique_domains = list(set(...))[:15]
ScrapeLimit == 5        \* scraper_service._semaphore = asyncio.Semaphore(5)
EnrichLimit == 5        \* apollo_service._enrich_semaphore = asyncio.Semaphore(5)
ErrCap == 120           \* str(e)[:120] in the except clause of run_pipeline

\* ------------------------------------------------------- generic helpers
Range(s) == {s[k] : k \in 1..Len(s)}

Take(s, n) == SubSeq(s, 1, IF Len(s) < n THEN Len(s) ELSE n)

\* all sequences over S of length at most n
SeqsUpTo(S, n) == UNION {[1..k -> S] : k \in 0..n}

\* str.strip() on the bounded string domain
Strip(s) == IF s = " " THEN "" ELSE s

\* Python truthiness of a string
Truthy(s) == s # ""

\* round(a / b) for non-negative a, positive b
RoundDiv(a, b) == (2 * a + b) \div (2 * b)

\* ------------------------------------------------------------ activity log
LogEntry(step, emoji, about) == [step |-> step, emoji |-> emoji, about |-> about]

\* add_log on a store that keeps only the newest entry of a run
add_log_newest(lg, step, emoji, about) == <<LogEntry(step, emoji, about)>>

\* pipeline_log.add_log: append under the lock
add_log(lg, step, emoji, about) == Append(lg, LogEntry(step, emoji, about))

\* pipeline_log.set_progress: overwrite under the lock (pct in tenths)
set_progress(step, pct10) == [step |-> step, pct |-> pct10]

NoProgress == [step |-> "", pct |-> 0]

\* ------------------------------------------------------------ web search
\* What Serper can return: link, the netloc urlparse() gives for it, title.
RawItems ==
    { [link |-> "https://www.a.com/",      host |-> "www.a.com",    title |-> "Acme"],
      [link |-> "https://b.com/",          host |-> "b.com",        title |-> " "],
      [link |-> "https://linkedin.com/in", host |-> "linkedin.com", title |-> "In"] }

\* parsed.netloc.replace("www.", "") on the bounded host domain
StripWww(host) ==
    CASE host = "www.a.com" -> "a.com"
      [] host = "www.dropbox.com" -> "dropbox.com"
      [] OTHER -> host

\* a subset of serper_service.NOISE_DOMAINS
NOISE_DOMAINS == {"linkedin.com", "indeed.com", "x.com"}

\* Python's `t in s` on strings
Contains(s, t) == \E i \in 1..(Len(s) - Len(t) + 1) : SubSeq(s, i, i + Len(t) - 1) = t

\* str.lower() on the bounded host domain
Lower(s) ==
    CASE s = "UK.LinkedIn.com" -> "uk.linkedin.com"
      [] OTHER -> s

\* any(noise in domain_lower for noise in NOISE_DOMAINS): some denylist entry
\* is a substring of the lower-cased domain
NoiseMatch(domain) == \E noise \in NOISE_DOMAINS : Contains(Lower(domain), noise)

\* the domains that the hosts of the model yield, and those the test matches
HostDomains == {"", "a.com", "b.com", "linkedin.com", "UK.LinkedIn.com", "dropbox.com"}

NoiseHosts == {d \in HostDomains : NoiseMatch(d)}

\* serper_service._is_noise_url: the substring test, looked up for the
\* domains of the model and computed for any other
_is_noise_url(domain) ==
    IF domain \in HostDomains THEN domain \in NoiseHosts ELSE NoiseMatch(domain)

RECURSIVE _search_single(_)
\* serper_service._search_single: organic items -> result dicts, noise dropped
_search_single(organic) ==
    IF organic = <<>> THEN <<>>
    ELSE LET item == Head(organic)
             domain == StripWww(item.host)
             rest == _search_single(Tail(organic))
         IN  IF _is_noise_url(domain) THEN rest
             ELSE <<[title |-> item.title, url |-> item.link, domain |-> domain]>> \o rest

RECURSIVE DedupeByUrl(_, _)
\* the seen_urls loop of serper_service.search over the concatenated lists
DedupeByUrl(items, seen) ==
    IF items = <<>> THEN <<>>
    ELSE LET item == Head(items)
         IN  IF Truthy(item.url) /\ item.url \notin seen
             THEN <<item>> \o DedupeByUrl(Tail(items), seen \cup {item.url})
             ELSE DedupeByUrl(Tail(items), seen)

RECURSIVE Flatten(_)
Flatten(lists) ==
    IF lists = <<>> THEN <<>> ELSE Head(lists) \o Flatten(Tail(lists))

\* search deduplicating each query's list on its own
search_dedupe_per_query(perQuery, keyOk) ==
    IF ~keyOk THEN [error |-> TRUE, items |-> <<>>]
    ELSE LET lists == [k \in 1..Len(perQuery) |->
                          IF perQuery[k].raise THEN <<>>
                          ELSE DedupeByUrl(_search_single(perQuery[k].organic), {})]
         IN  [error |-> FALSE, items |-> Flatten(lists)]

\* serper_service.search: per query either an exception (raise) or organic
\* items; exceptions are skipped, the rest merged and deduplicated by URL.
\* keyOk = FALSE is the missing-API-key return, a single error dict.
search(perQuery, keyOk) ==
    IF ~keyOk THEN [error |-> TRUE, items |-> <<>>]
    ELSE LET lists == [k \in 1..Len(perQuery) |->
                          IF perQuery[k].raise THEN <<>>
                          ELSE _search_single(perQuery[k].organic)]
         IN  [error |-> FALSE, items |-> DedupeByUrl(Flatten(lists), {})]

\* valid_results = [r for r in search_results if "error" not in r]
ValidResults(sr) == IF sr.error THEN <<>> ELSE sr.items

\* ------------------------------------------------------------ enrichment
\* People as apollo_service._enrich_person shapes them.
Ann == [first_name |-> "Ann", last_name |-> "Lee", email |-> "ann@x", linkedin_url |-> "",
        title |-> "CEO", organization_name |-> "Acme", organization_domain |-> "acme.io"]

Lee == [first_name |-> "", last_name |-> "Lee", email |-> "", linkedin_url |-> "li/lee",
        title |-> "", organization_name |-> "", organization_domain |-> ""]

Blank == [first_name |-> " ", last_name |-> "", email |-> "", linkedin_url |-> "",
          title |-> "CEO", organization_name |-> "", organization_domain |-> ""]

\* the people one Apollo search can yield, before grading
CandidateLists == {<<>>, <<Ann>>, <<Blank, Lee>>}

\* _lead_quality as its docstring words it: medium needs email or linkedin
_lead_quality_docstring(person) ==
    LET first == Strip(person.first_name)
        last == Strip(person.last_name)
        email == Strip(person.email)
        linkedin == Strip(person.linkedin_url)
        title == Strip(person.title)
        has_name == Truthy(first) \/ Truthy(last)
        has_contact == Truthy(email) \/ Truthy(linkedin)
    IN  IF ~has_name /\ ~has_contact THEN "skip"
        ELSE IF has_name /\ Truthy(email) /\ Truthy(title) THEN "high"
        ELSE IF has_name /\ has_contact THEN "medium"
        ELSE "skip"

\* apollo_service._lead_quality
_lead_quality(person) ==
    LET first == Strip(person.first_name)
        last == Strip(person.last_name)
        email == Strip(person.email)
        linkedin == Strip(person.linkedin_url)
        title == Strip(person.title)
        has_name == Truthy(first) \/ Truthy(last)
        has_contact == Truthy(email) \/ Truthy(linkedin)
    IN  IF ~has_name /\ ~has_contact THEN "skip"
        ELSE IF has_name /\ Truthy(email) /\ Truthy(title) THEN "high"
        ELSE IF has_name /\ has_contact THEN "medium"
        ELSE IF has_name /\ Truthy(title) THEN "medium"
        ELSE "skip"

\* search_people without the quality gate of _enrich_person
search_people_ungraded(candidates) == candidates

\* apollo_service.search_people, success path: candidates graded skip are
\* dropped (_enrich_person returns None for them)
search_people(candidates) ==
    SelectSeq(candidates, LAMBDA p : _lead_quality(p) # "skip")

\* --------------------------------------------------------------- leads
\* _is_junk_lead with its first rule only: a nameless lead with an email or a
\* social URL passes whatever its company
_is_junk_lead_contactless(lead) ==
    LET has_name == Truthy(Strip(lead.first_name)) \/ Truthy(Strip(lead.last_name))
        has_email == Truthy(Strip(lead.email))
        has_linkedin == Truthy(Strip(lead.linkedin_url))
    IN  IF ~has_name /\ ~has_email /\ ~has_linkedin THEN TRUE
        ELSE FALSE

\* pipeline_service._is_junk_lead
_is_junk_lead(lead) ==
    LET has_name == Truthy(Strip(lead.first_name)) \/ Truthy(Strip(lead.last_name))
        has_email == Truthy(Strip(lead.email))
        has_linkedin == Truthy(Strip(lead.linkedin_url))
        has_company == Truthy(Strip(lead.company_name))
    IN  IF ~has_name /\ ~has_email /\ ~has_linkedin THEN TRUE
        ELSE IF ~has_name /\ ~has_company THEN TRUE
        ELSE FALSE

\* Lead(...) row; is_selected takes the column default True on insert
Lead(id, srid, fn, ln, em, jt, li, cn, cd, ctx) ==
    [id |-> id, search_result_id |-> srid, first_name |-> fn, last_name |-> ln,
     email |-> em, job_title |-> jt, linkedin_url |-> li, company_name |-> cn,
     company_domain |-> cd, scraped_context |-> ctx,
     personalized_email |-> "", email_subject |-> "", suggested_approach |-> "",
     is_selected |-> TRUE]

\* sr.title or sr.domain or ""
OrElse(a, b) == IF Truthy(a) THEN a ELSE b

VARIABLES
    pc,             \* position of the run in run_pipeline
    status,         \* SearchSession.status ("absent" before the row exists)
    result_count,   \* SearchSession.result_count
    parsed_stored,  \* SearchSession.parsed_query has been written
    query,          \* raw query handed to the run
    parsed,         \* local: result of llm_service.parse_query
    logs,           \* pipeline_log._logs[session_id]
    progress,       \* pipeline_log._progress[session_id]
    search_queries, \* local: queries handed to Search
    valid_results,  \* local: error-free merged search results
    db_results,     \* local: SearchResult rows of the session, in insert order
    scraped_map,    \* local: url -> context of the successful scrapes
    unique_domains, \* local: domains to enrich
    idx,            \* local: loop index i of the domain loop / the lead loop
    all_leads_data, \* local: contacts collected by the domain loop
    pending,        \* local: Lead objects added to the ORM session, not committed
    leads,          \* leads table rows of the session, in insert order
    next_id,        \* next primary key of a Lead row
    sel,            \* local: ids of the leads loaded for drafting
    drafts,         \* local: uncommitted draft fields, lead id -> result
    success_count,  \* local: success_count
    edits,          \* number of PATCH requests served so far
    calls,          \* history: provider calls made, <<operation, unit>>
    fp_outcome,     \* history: domain -> outcome of its FindPeople call
    scrape_out,     \* history: outcome of the scrape of each urls_to_scrape entry
    progress_hist,  \* history: every value written by set_progress, in order
    exc             \* length of str(e) of the exception that reached the except clause

VARIABLES
    _logs,          \* pipeline_log._logs: run id -> entries (absent until written)
    _progress,      \* pipeline_log._progress: run id -> {step, pct}
    received,       \* the entries a poller of run "r1" has received so far
    appended,       \* history: run id -> entries appended since its last clear
    life,           \* history: run id -> "never" written, "written", "cleared"
    cleared,        \* history: run ids that were ever cleared
    last_op         \* history: the latest operation on the log store

storeVars == <<_logs, _progress, received, appended, life, cleared, last_op>>

VARIABLES
    fan_kind,           \* which fan-out is exercised: "scrape", "enrich" ("idle": none)
    batch,              \* run id -> number of items of its batch
    task,               \* <<run id, item>> -> position or outcome of the item's task
    _semaphore,         \* free slots of scraper_service._semaphore
    _enrich_semaphore,  \* free slots of apollo_service._enrich_semaphore
    results,            \* run id -> list returned by scrape_many / search_people
    returned            \* run id -> the batch call has returned

fanVars == <<fan_kind, batch, task, _semaphore, _enrich_semaphore, results, returned>>

VARIABLES
    person_in,      \* the person dict handed to _lead_quality
    quality_out     \* its grade ("none" before the call)

clsVars == <<person_in, quality_out>>

VARIABLES
    lead_in,        \* the Lead handed to _is_junk_lead
    junk_out        \* <<>> before the call, then <<its return value>>

junkVars == <<lead_in, junk_out>>

VARIABLES
    per_query,      \* per search query: what its _search_single call yields
    key_ok,         \* the Serper API key is configured
    search_out      \* <<>> before the call, then <<what search returned>>

srchVars == <<per_query, key_ok, search_out>>

VARIABLES
    sessions,       \* search_sessions rows, in insert order (id = position)
    responses,      \* the responses of POST /api/pipeline/run, in request order
    bg_tasks,       \* background tasks added and not yet started (their arguments)
    runs,           \* session id -> arguments run_pipeline was started with
    draft_calls,    \* history: the generate_email calls, with their arguments
    payloads,       \* history: session id -> the request payload it was created for
    launches        \* history: session id -> number of run_pipeline starts

launchVars == <<sessions, responses, bg_tasks, runs, draft_calls, payloads, launches>>

VARIABLES
    cap_rows,       \* the SearchResult rows of a run with many results (db_results)
    cap_pc,         \* position of that run: "idle", "store_results", "enrich_loop", "done"
    cap_domains,    \* its unique_domains
    cap_idx,        \* loop index of its domain loop
    cap_calls       \* history: its FetchPage and FindPeople calls, <<operation, unit>>

capVars == <<cap_rows, cap_pc, cap_domains, cap_idx, cap_calls>>

VARIABLES
    fetch_url,      \* the URL handed to scraper_service.scrape
    fetch_pc,       \* position inside _scrape_impl, then "returned" / "raised", "done"
    fetch_result,   \* the local `result` dict of _scrape_impl
    fetch_failure,  \* history: how the fetch of the URL failed ("none": it did not)
    fetch_final,    \* <<>> before scrape_many returns, then the list it returns
    fetch_map       \* the scraped_map the orchestrator builds from that list

fetchVars == <<fetch_url, fetch_pc, fetch_result, fetch_failure, fetch_final, fetch_map>>

VARIABLES
    enr_search,     \* how the Apollo search request of search_people goes
    enr_items,      \* people_raw: per stub, the stub and how its enrichment request goes
    enr_out         \* <<>> before search_people returns, then <<the list it returns>>

enrVars == <<enr_search, enr_items, enr_out>>

auxVars == <<storeVars, fanVars, clsVars, junkVars, srchVars, launchVars, capVars, fetchVars, enrVars>>

vars == <<pc, status, result_count, parsed_stored, query, parsed, logs, progress,
          search_queries, valid_results, db_results, scraped_map, unique_domains,
          idx, all_leads_data, pending, leads, next_id, sel, drafts, success_count,
          edits, calls, fp_outcome, scrape_out, progress_hist, exc, auxVars>>

dbVars == <<status, result_count, parsed_stored, leads, next_id>>
logVars == <<logs, progress, progress_hist>>
searchLocals == <<parsed, search_queries, valid_results, db_results>>
enrichLocals == <<scraped_map, unique_domains, all_leads_data, pending>>
draftLocals == <<sel, drafts, success_count>>

EmptyMap == [u \in {} |-> ""]

\* session ids of concurrently executing runs
RunIds == {"r1", "r2"}

Domains == {StripWww(it.host) : it \in RawItems}

\* the log store before anything is written
StoreIdle ==
    /\ _logs = EmptyMap
    /\ _progress = EmptyMap
    /\ received = <<>>
    /\ appended = [r \in RunIds |-> <<>>]
    /\ life = [r \in RunIds |-> "never"]
    /\ cleared = {}
    /\ last_op = [op |-> "none", run |-> ""]

\* no fan-out batch is running
FanIdle ==
    /\ fan_kind = "idle"
    /\ batch = [r \in RunIds |-> 0]
    /\ task = EmptyMap
    /\ _semaphore = ScrapeLimit
    /\ _enrich_semaphore = EnrichLimit
    /\ results = [r \in RunIds |-> <<>>]
    /\ returned = [r \in RunIds |-> FALSE]

NoPerson == [first_name |-> "", last_name |-> "", email |-> "", linkedin_url |-> "",
             title |-> ""]

\* no grading is going on
ClsIdle ==
    /\ person_in = NoPerson
    /\ quality_out = "idle"

\* no junk test is going on
JunkIdle ==
    /\ lead_in = Lead(0, 0, "", "", "", "", "", "", "", "")
    /\ junk_out = <<>>

\* no stand-alone search is going on
SrchIdle ==
    /\ per_query = <<>>
    /\ key_ok = FALSE
    /\ search_out = <<>>

\* no request has been served
LaunchIdle ==
    /\ sessions = <<>>
    /\ responses = <<>>
    /\ bg_tasks = {}
    /\ runs = EmptyMap
    /\ draft_calls = {}
    /\ payloads = <<>>
    /\ launches = <<>>

\* no many-results run is going on
CapIdle ==
    /\ cap_rows = <<>>
    /\ cap_pc = "idle"
    /\ cap_domains = <<>>
    /\ cap_idx = 0
    /\ cap_calls = <<>>

\* the `result` dict _scrape_impl starts from (error None reads as "")
NewResult(url) ==
    [url |-> url, title |-> "", text_content |-> "", subpage_context |-> "", error |-> ""]

\* no stand-alone scrape is going on
FetchIdle ==
    /\ fetch_url = ""
    /\ fetch_pc = "idle"
    /\ fetch_result = NewResult("")
    /\ fetch_failure = "none"
    /\ fetch_final = <<>>
    /\ fetch_map = EmptyMap

\* no stand-alone search_people call is going on
EnrIdle ==
    /\ enr_search = "idle"
    /\ enr_items = <<>>
    /\ enr_out = <<>>

\* the pipeline before a run is requested
PipeIdle ==
    /\ pc = "idle"
    /\ status = "absent"
    /\ result_count = 0
    /\ parsed_stored = FALSE
    /\ query = ""
    /\ parsed = [error |-> FALSE, search_queries |-> <<>>]
    /\ logs = <<>>
    /\ progress = NoProgress
    /\ search_queries = <<>>
    /\ valid_results = <<>>
    /\ db_results = <<>>
    /\ scraped_map = EmptyMap
    /\ unique_domains = <<>>
    /\ idx = 0
    /\ all_leads_data = <<>>
    /\ pending = <<>>
    /\ leads = <<>>
    /\ next_id = 1
    /\ sel = <<>>
    /\ drafts = EmptyMap
    /\ success_count = 0
    /\ edits = 0
    /\ calls = <<>>
    /\ fp_outcome = [d \in Domains |-> "none"]
    /\ scrape_out = <<>>
    /\ progress_hist = <<>>
    /\ exc = 0

Init == PipeIdle /\ StoreIdle /\ FanIdle /\ ClsIdle /\ JunkIdle /\ SrchIdle /\ LaunchIdle /\ CapIdle /\ FetchIdle /\ EnrIdle

\* set_progress together with its history record
WriteProgress(step, pct10) ==
    /\ progress' = set_progress(step, pct10)
    /\ progress_hist' = Append(progress_hist, pct10)

\* pipeline_service._update_session_status (the session row always exists:
\* nothing in the repository deletes a session)
_update_session_status(st, rc) ==
    /\ status' = st
    /\ result_count' = IF rc = -1 THEN result_count ELSE rc

\* ---------------------------------------------------------------- inputs
Queries == {"find ceos"}

\* search_queries of a successful parse_query answer
ParsedQueryLists == {<<>>, <<"q1", "q2">>}

\* what one _search_single call can yield
QueryOutcomes ==
    {[raise |-> TRUE, organic |-> <<>>]}
    \cup {[raise |-> FALSE, organic |-> o] : o \in SeqsUpTo(RawItems, MaxPerQuery)}

\* <title> of a page
PageTitle(url) ==
    CASE url = "https://www.a.com/" -> "Acme Inc"
      [] OTHER -> "B Corp"

\* body text of a page
PageText(url) ==
    CASE url = "https://www.a.com/" -> "Acme builds rockets"
      [] OTHER -> "B makes bolts"

\* scraped_map.get(url, "")
MapGet(m, url) == IF url \in DOMAIN m THEN m[url] ELSE ""

\* all orderings of a finite set, as sequences
Orderings(S) ==
    {s \in [1..Cardinality(S) -> S] : \A a, b \in 1..Cardinality(S) : a # b => s[a] # s[b]}

\* ------------------------------------------------------------- StartRun
\* api/pipeline.py run_pipeline: accepted request
StartRun ==
    /\ pc = "idle"
    /\ \E q \in Queries :
          /\ Truthy(Strip(q))
          /\ query' = q
    /\ status' = "pending"
    /\ pc' = "start"
    /\ UNCHANGED <<auxVars, exc, result_count, parsed_stored, leads, next_id, logVars, searchLocals,
                   enrichLocals, idx, draftLocals, edits, calls, fp_outcome, scrape_out>>

\* ------------------------------------------------------------ the run
\* pipeline_service.py 65-66
Begin ==
    /\ pc = "start"
    /\ WriteProgress("starting", 20)
    /\ logs' = add_log(logs, "starting", "rocket", "")
    /\ pc' = "set_searching"
    /\ UNCHANGED <<auxVars, exc, dbVars, query, searchLocals, enrichLocals, idx, draftLocals, edits,
                   calls, fp_outcome, scrape_out>>

\* pipeline_service.py 69-73: status searching, then await parse_query
ParseQuery ==
    /\ pc = "set_searching"
    /\ _update_session_status("searching", -1)
    /\ WriteProgress("query", 50)
    /\ logs' = add_log(logs, "query", "mag", query)
    /\ \/ \E qs \in ParsedQueryLists : parsed' = [error |-> FALSE, search_queries |-> qs]
       \/ parsed' = [error |-> TRUE, search_queries |-> <<query>>]
    /\ calls' = Append(calls, <<"InterpretQuery", query>>)
    /\ pc' = "store_parsed"
    /\ UNCHANGED <<auxVars, exc, parsed_stored, leads, next_id, query, search_queries, valid_results,
                   db_results, enrichLocals, idx, draftLocals, edits, fp_outcome, scrape_out>>

RECURSIVE LogEach(_, _, _, _)
\* one add_log per element of units
LogEach(lg, step, emoji, units) ==
    IF units = <<>> THEN lg
    ELSE LogEach(add_log(lg, step, emoji, Head(units)), step, emoji, Tail(units))

\* the queries of the snapshot, taken as they are
DerivedQueriesNoDefault(p, q) == p.search_queries

\* pipeline_service.py 81-83: the queries of the snapshot, or the raw query
DerivedQueries(p, q) == IF p.search_queries = <<>> THEN <<q>> ELSE p.search_queries

\* pipeline_service.py 76-121: store the snapshot, then await search
Search ==
    /\ pc = "store_parsed"
    /\ parsed_stored' = TRUE
    /\ LET sq == DerivedQueries(parsed, query)
           lg1 == LogEach(add_log(logs, "query", "check", ""), "search", "globe", sq)
       IN  /\ search_queries' = sq
           /\ \E keyOk \in BOOLEAN, perQuery \in [1..Len(sq) -> QueryOutcomes] :
                 LET vr == ValidResults(search(perQuery, keyOk))
                 IN  /\ valid_results' = vr
                     /\ calls' = IF keyOk
                                  THEN calls \o [k \in 1..Len(sq) |-> <<"Search", sq[k]>>]
                                  ELSE calls
                     /\ IF vr = <<>>
                        THEN /\ logs' = add_log(lg1, "search", "x", "")
                             /\ progress' = set_progress("search", 150)
                             /\ progress_hist' = Append(progress_hist, 150)
                             /\ pc' = "fail_empty"
                        ELSE /\ logs' = add_log(lg1, "search", "check", "")
                             /\ progress' = set_progress("search", 300)
                             /\ progress_hist' = progress_hist \o <<150, 300>>
                             /\ pc' = "store_results"
    /\ UNCHANGED <<auxVars, exc, status, result_count, leads, next_id, query, parsed, db_results,
                   enrichLocals, idx, draftLocals, edits, fp_outcome, scrape_out>>

\* FailEmpty without the return: the run goes on after marking the failure
FailEmptyNoReturn ==
    /\ pc = "fail_empty"
    /\ _update_session_status("failed", -1)
    /\ pc' = "store_results"
    /\ UNCHANGED <<auxVars, exc, parsed_stored, leads, next_id, query, logVars, searchLocals,
                   enrichLocals, idx, draftLocals, edits, calls, fp_outcome, scrape_out>>

\* FailEmpty that returns without recording the failure
FailEmptyNoStatus ==
    /\ pc = "fail_empty"
    /\ pc' = "done"
    /\ UNCHANGED <<auxVars, exc, dbVars, query, logVars, searchLocals, enrichLocals, idx, draftLocals,
                   edits, calls, fp_outcome, scrape_out>>

\* pipeline_service.py 113-114
FailEmpty ==
    /\ pc = "fail_empty"
    /\ _update_session_status("failed", -1)
    /\ pc' = "done"
    /\ UNCHANGED <<auxVars, exc, parsed_stored, leads, next_id, query, logVars, searchLocals,
                   enrichLocals, idx, draftLocals, edits, calls, fp_outcome, scrape_out>>

\* SearchResult rows: the valid results with their primary keys
Rows(vr) == [k \in 1..Len(vr) |->
                [id |-> k, title |-> vr[k].title, url |-> vr[k].url, domain |-> vr[k].domain]]

\* what one scrape can yield: an error, a page with nothing to extract, a
\* page with a title only, a page with title and body text
ScrapeOutcomes == {"error", "empty", "title", "text"}

\* the result dict of scraper_service._scrape_impl (meta_description and
\* subpage_context stay empty)
ScrapeResult(url, out) ==
    [url |-> url,
     error |-> out = "error",
     title |-> IF out \in {"title", "text"} THEN PageTitle(url) ELSE "",
     text_content |-> IF out = "text" THEN PageText(url) ELSE ""]

\* " | ".join(context_parts) over the non-empty parts
JoinContext(sd) ==
    IF Truthy(sd.title) /\ Truthy(sd.text_content)
    THEN sd.title \o " | " \o sd.text_content
    ELSE IF Truthy(sd.title) THEN sd.title ELSE sd.text_content

\* the scraped_map loop of pipeline_service.py 153-168
BuildScrapedMap(urls, out) ==
    LET sds == [k \in 1..Len(urls) |-> ScrapeResult(urls[k], out[k])]
        okIdx == {k \in 1..Len(urls) : Truthy(sds[k].url) /\ ~sds[k].error}
    IN  [u \in {urls[k] : k \in okIdx} |->
            JoinContext(sds[CHOOSE j \in okIdx : urls[j] = u])]

\* urls_to_scrape = [r.url for r in db_results if r.url][:25]
UrlsToScrape(rows) ==
    LET withUrl == SelectSeq(rows, LAMBDA r : Truthy(r.url))
    IN  Take([k \in 1..Len(withUrl) |-> withUrl[k].url], ScrapeCap)

\* pipeline_service.py 124-186: store rows, status enriching, await scrape_many
Scrape ==
    /\ pc = "store_results"
    /\ LET rows == Rows(valid_results)
           urls_to_scrape == UrlsToScrape(rows)
           doms == {rows[k].domain : k \in {j \in 1..Len(rows) : Truthy(rows[j].domain)}}
       IN  /\ db_results' = rows
           /\ _update_session_status("enriching", Len(rows))
           /\ \E out \in [1..Len(urls_to_scrape) -> ScrapeOutcomes] :
                 /\ scraped_map' = BuildScrapedMap(urls_to_scrape, out)
                 /\ scrape_out' = out
           /\ calls' = calls \o [k \in 1..Len(urls_to_scrape) |->
                                    <<"FetchPage", urls_to_scrape[k]>>]
           /\ \E ord \in Orderings(doms) : unique_domains' = Take(ord, DomainCap)
    /\ logs' = add_log(add_log(add_log(logs, "enrich", "page", ""),
                                "enrich", "check", ""), "enrich", "people", "")
    /\ progress' = set_progress("enrich", 450)
    /\ progress_hist' = progress_hist \o <<350, 450>>
    /\ idx' = 0
    /\ all_leads_data' = <<>>
    /\ pc' = "enrich_loop"
    /\ UNCHANGED <<auxVars, exc, parsed_stored, leads, next_id, query, parsed, search_queries,
                   valid_results, pending, draftLocals, edits, fp_outcome>>

\* first SearchResult row of a domain: next((r for r in db_results if ...), None)
MatchingResult(domain) ==
    LET ks == {k \in 1..Len(db_results) : db_results[k].domain = domain}
    IN  IF ks = {} THEN [id |-> 0, url |-> ""]
        ELSE LET k == CHOOSE j \in ks : \A i \in ks : j <= i
             IN  [id |-> db_results[k].id, url |-> db_results[k].url]

\* EnrichPct counting the remaining domains instead of the finished ones
EnrichPctRemaining(i, n) == 450 + RoundDiv((n - i) * 200, IF n > 1 THEN n ELSE 1)

\* pct of the domain loop, in tenths
EnrichPct(i, n) == 450 + RoundDiv((i + 1) * 200, IF n > 1 THEN n ELSE 1)

\* the domain loop staying on a domain whose call did not succeed
NextUnitRetry(i, outcome) == IF outcome = "ok" THEN i + 1 ELSE i

\* `for i, domain in enumerate(unique_domains)`: the next domain, whatever
\* the outcome of this one (the except clause ends in `continue`)
NextUnit(i, outcome) == i + 1

\* the domain loop giving up the run when a call raises
AfterFindPeopleFatal(outcome) == IF outcome = "raise" THEN "fail_empty" ELSE "enrich_loop"

\* position after one domain: still in the loop (lines 220-222)
AfterFindPeople(outcome) == "enrich_loop"

\* pipeline_service.py 189-222: one iteration of the domain loop
EnrichDomain ==
    /\ pc = "enrich_loop"
    /\ idx < Len(unique_domains)
    /\ LET domain == unique_domains[idx + 1]
           m == MatchingResult(domain)
       IN  /\ calls' = Append(calls, <<"FindPeople", domain>>)
           /\ \/ \* search_people returned people (possibly none)
                 \E cands \in CandidateLists :
                    LET valid_people == search_people(cands)
                        tagged == [k \in 1..Len(valid_people) |->
                                     [person |-> valid_people[k],
                                      _search_result_id |-> m.id,
                                      _scraped_context |-> MapGet(scraped_map, m.url),
                                      domain |-> domain]]
                        named == SelectSeq(valid_people, LAMBDA p :
                                     Truthy(Strip(p.first_name)) \/ Truthy(Strip(p.last_name)))
                    IN  /\ all_leads_data' = all_leads_data \o tagged
                        /\ logs' = LogEach(logs, "enrich", "person",
                                           [k \in 1..Len(named) |-> domain])
                        /\ WriteProgress("enrich", EnrichPct(idx, Len(unique_domains)))
                        /\ fp_outcome' = [fp_outcome EXCEPT ![domain] = "ok"]
              \/ \* search_people returned [{"error": ...}]
                 /\ all_leads_data' = all_leads_data
                 /\ logs' = logs
                 /\ WriteProgress("enrich", EnrichPct(idx, Len(unique_domains)))
                 /\ fp_outcome' = [fp_outcome EXCEPT ![domain] = "error"]
              \/ \* an exception inside the try block
                 /\ all_leads_data' = all_leads_data
                 /\ logs' = add_log(logs, "enrich", "warn", domain)
                 /\ UNCHANGED <<progress, progress_hist>>
                 /\ fp_outcome' = [fp_outcome EXCEPT ![domain] = "raise"]
    /\ idx' = NextUnit(idx, fp_outcome'[unique_domains[idx + 1]])
    /\ pc' = AfterFindPeople(fp_outcome'[unique_domains[idx + 1]])
    /\ UNCHANGED <<auxVars, exc, dbVars, query, searchLocals, scraped_map, unique_domains, pending,
                   draftLocals, edits, scrape_out>>

\* FallbackLeads without the context gate: one lead per search result
FallbackLeadsUngated(first_id) ==
    [k \in 1..Len(db_results) |->
        Lead(first_id + k - 1, db_results[k].id, "", "", "", "", "",
             OrElse(db_results[k].title, OrElse(db_results[k].domain, "")),
             OrElse(db_results[k].domain, ""),
             MapGet(scraped_map, db_results[k].url))]

\* Lead rows built from the search results that have context (233-245)
FallbackLeads(first_id) ==
    LET ok == SelectSeq(db_results, LAMBDA sr :
                  Truthy(MapGet(scraped_map, sr.url)) /\ Truthy(sr.domain))
    IN  [k \in 1..Len(ok) |->
            Lead(first_id + k - 1, ok[k].id, "", "", "", "", "",
                 OrElse(ok[k].title, OrElse(ok[k].domain, "")),
                 OrElse(ok[k].domain, ""),
                 MapGet(scraped_map, ok[k].url))]

\* Lead rows built from the enrichment contacts (257-279)
ContactLeads(first_id) ==
    [k \in 1..Len(all_leads_data) |->
        LET d == all_leads_data[k]
            p == d.person
        IN  Lead(first_id + k - 1, d._search_result_id, p.first_name, p.last_name,
                 p.email, p.title, p.linkedin_url, p.organization_name,
                 p.organization_domain,
                 d._scraped_context)]

\* pipeline_service.py 225-246 / 251-279: build the Lead objects
PrepareLeads ==
    /\ pc = "enrich_loop"
    /\ idx = Len(unique_domains)
    /\ IF all_leads_data = <<>>
       THEN LET fb == FallbackLeads(next_id)
            IN  /\ pending' = fb
                /\ next_id' = next_id + Len(fb)
                /\ IF fb = <<>>
                   THEN /\ logs' = add_log(add_log(logs, "enrich", "info", ""),
                                           "enrich", "warn", "")
                        /\ pc' = "cleanup"
                   ELSE /\ logs' = add_log(logs, "enrich", "info", "")
                        /\ pc' = "commit_leads"
       ELSE /\ pending' = ContactLeads(next_id)
            /\ next_id' = next_id + Len(all_leads_data)
            /\ logs' = add_log(logs, "enrich", "check", "")
            /\ pc' = "commit_leads"
    /\ UNCHANGED <<auxVars, exc, status, result_count, parsed_stored, leads, query, progress,
                   progress_hist, searchLocals, scraped_map, unique_domains,
                   all_leads_data, idx, draftLocals, edits, calls, fp_outcome, scrape_out>>

\* pipeline_service.py 247-248 / 280: db.commit() of the new leads
CommitLeads ==
    /\ pc = "commit_leads"
    /\ leads' = leads \o pending
    /\ pending' = <<>>
    /\ logs' = IF all_leads_data = <<>> THEN add_log(logs, "enrich", "check", "") ELSE logs
    /\ pc' = "cleanup"
    /\ UNCHANGED <<auxVars, exc, status, result_count, parsed_stored, next_id, query, progress,
                   progress_hist, searchLocals, scraped_map, unique_domains,
                   all_leads_data, idx, draftLocals, edits, calls, fp_outcome, scrape_out>>

\* pipeline_service.py 283-293: delete junk leads, progress 70
Cleanup ==
    /\ pc = "cleanup"
    /\ leads' = SelectSeq(leads, LAMBDA l : ~_is_junk_lead(l))
    /\ WriteProgress("generate", 700)
    /\ pc' = "set_generating"
    /\ UNCHANGED <<auxVars, exc, status, result_count, parsed_stored, next_id, query, logs,
                   searchLocals, enrichLocals, idx, draftLocals, edits, calls, fp_outcome, scrape_out>>

\* pipeline_service.py 296: status generating
SetGenerating ==
    /\ pc = "set_generating"
    /\ _update_session_status("generating", -1)
    /\ pc' = "load_selected"
    /\ UNCHANGED <<auxVars, exc, parsed_stored, leads, next_id, query, logVars, searchLocals,
                   enrichLocals, idx, draftLocals, edits, calls, fp_outcome, scrape_out>>

\* ids of the rows with is_selected == True, in row order
SelectedIds(ls) ==
    LET s == SelectSeq(ls, LAMBDA l : l.is_selected)
    IN  [k \in 1..Len(s) |-> s[k].id]

\* pipeline_service.py 298-316: load the selected leads
LoadSelected ==
    /\ pc = "load_selected"
    /\ sel' = SelectedIds(leads)
    /\ drafts' = EmptyMap
    /\ success_count' = 0
    /\ idx' = 0
    /\ IF SelectedIds(leads) = <<>>
       THEN /\ logs' = add_log(logs, "generate", "warn", "")
            /\ pc' = "shortcut"
       ELSE /\ logs' = add_log(logs, "generate", "mail", "")
            /\ pc' = "draft_loop"
    /\ UNCHANGED <<auxVars, exc, dbVars, query, progress, progress_hist, searchLocals, enrichLocals,
                   edits, calls, fp_outcome, scrape_out>>

\* pipeline_service.py 306: completed with result_count=0
Shortcut ==
    /\ pc = "shortcut"
    /\ _update_session_status("completed", 0)
    /\ pc' = "shortcut_log"
    /\ UNCHANGED <<auxVars, exc, parsed_stored, leads, next_id, query, logVars, searchLocals,
                   enrichLocals, idx, draftLocals, edits, calls, fp_outcome, scrape_out>>

\* pipeline_service.py 307-309
ShortcutLog ==
    /\ pc = "shortcut_log"
    /\ WriteProgress("export", 1000)
    /\ logs' = add_log(logs, "export", "warn", "")
    /\ pc' = "done"
    /\ UNCHANGED <<auxVars, exc, dbVars, query, searchLocals, enrichLocals, idx, draftLocals, edits,
                   calls, fp_outcome, scrape_out>>

\* the row with primary key id
LeadById(id) == leads[CHOOSE k \in 1..Len(leads) : leads[k].id = id]

\* has_any_info of pipeline_service.py 323-327
has_any_info(lead) ==
    \/ Truthy(Strip(lead.first_name))
    \/ Truthy(Strip(lead.company_name))
    \/ Truthy(Strip(lead.scraped_context))

\* name of pipeline_service.py 320, the label of a lead in the log
NameOf(lead) ==
    LET f == Strip(lead.first_name)
        l == Strip(lead.last_name)
        full == IF Truthy(f) /\ Truthy(l) THEN f \o " " \o l
                ELSE IF Truthy(f) THEN f ELSE l
    IN  OrElse(full, OrElse(lead.company_name, "lead"))

\* pct of the lead loop, in tenths
DraftPct(i, n) == 700 + RoundDiv((i + 1) * 250, IF n > 1 THEN n ELSE 1)

DraftResult == [subject |-> "Hello", body |-> "Body", suggested_approach |-> "Angle"]

\* the lead loop left as soon as a draft call raises
AfterDraftAbort(i, n, outcome) ==
    IF outcome = "raise" \/ i + 1 = n THEN "commit_drafts" ELSE "draft_loop"

\* position after one lead: the next lead, or line 371 after the last one,
\* whatever the outcome (lines 332 and 366 `continue`)
AfterDraft(i, n, outcome) == IF i + 1 = n THEN "commit_drafts" ELSE "draft_loop"

\* pipeline_service.py 319-369: one iteration of the lead loop
DraftLead ==
    /\ pc = "draft_loop"
    /\ idx < Len(sel)
    /\ LET id == sel[idx + 1]
           lead == LeadById(id)
           name == NameOf(lead)
           pct == DraftPct(idx, Len(sel))
       IN  IF ~has_any_info(lead)
           THEN /\ logs' = add_log(logs, "generate", "skip", name)
                /\ WriteProgress("generate", pct)
                /\ pc' = AfterDraft(idx, Len(sel), "skip")
                /\ UNCHANGED <<drafts, success_count, calls>>
           ELSE /\ calls' = Append(calls, <<"DraftMessage", ToString(id)>>)
                /\ \/ \* generate_email returned a draft
                      /\ drafts' = [k \in DOMAIN drafts \cup {id} |->
                                       IF k = id THEN DraftResult ELSE drafts[k]]
                      /\ success_count' = success_count + 1
                      /\ logs' = add_log(add_log(logs, "generate", "write", name),
                                         "generate", "check", name)
                      /\ WriteProgress("generate", pct)
                      /\ pc' = AfterDraft(idx, Len(sel), "ok")
                   \/ \* generate_email returned {"error": ...}
                      /\ logs' = add_log(add_log(logs, "generate", "write", name),
                                         "generate", "warn", name)
                      /\ WriteProgress("generate", pct)
                      /\ pc' = AfterDraft(idx, Len(sel), "error")
                      /\ UNCHANGED <<drafts, success_count>>
                   \/ \* an exception inside the try block
                      /\ logs' = add_log(add_log(logs, "generate", "write", name),
                                         "generate", "x", name)
                      /\ pc' = AfterDraft(idx, Len(sel), "raise")
                      /\ UNCHANGED <<drafts, success_count, progress, progress_hist>>
    /\ idx' = idx + 1
    /\ UNCHANGED <<auxVars, exc, dbVars, query, searchLocals, enrichLocals, sel, edits, fp_outcome, scrape_out>>

\* a flush that writes every column of the loaded rows, not only the
\* attributes that were assigned: the rows were loaded with is_selected true
CommitDraftsAllColumns ==
    /\ pc = "commit_drafts"
    /\ leads' = [k \in 1..Len(leads) |->
                    IF leads[k].id \in Range(sel)
                    THEN [leads[k] EXCEPT
                            !.personalized_email =
                                IF leads[k].id \in DOMAIN drafts
                                THEN drafts[leads[k].id].body ELSE @,
                            !.email_subject =
                                IF leads[k].id \in DOMAIN drafts
                                THEN drafts[leads[k].id].subject ELSE @,
                            !.suggested_approach =
                                IF leads[k].id \in DOMAIN drafts
                                THEN drafts[leads[k].id].suggested_approach ELSE @,
                            !.is_selected = TRUE]
                    ELSE leads[k]]
    /\ pc' = "finish"
    /\ UNCHANGED <<auxVars, exc, status, result_count, parsed_stored, next_id, query, logVars,
                   searchLocals, enrichLocals, idx, draftLocals, edits, calls, fp_outcome, scrape_out>>

\* pipeline_service.py 371: db.commit() flushes the drafted fields
CommitDrafts ==
    /\ pc = "commit_drafts"
    /\ leads' = [k \in 1..Len(leads) |->
                    IF leads[k].id \in DOMAIN drafts
                    THEN [leads[k] EXCEPT
                            !.personalized_email = drafts[leads[k].id].body,
                            !.email_subject = drafts[leads[k].id].subject,
                            !.suggested_approach = drafts[leads[k].id].suggested_approach]
                    ELSE leads[k]]
    /\ pc' = "finish"
    /\ UNCHANGED <<auxVars, exc, status, result_count, parsed_stored, next_id, query, logVars,
                   searchLocals, enrichLocals, idx, draftLocals, edits, calls, fp_outcome, scrape_out>>

\* pipeline_service.py 374-377: count the leads, status completed
Finish ==
    /\ pc = "finish"
    /\ _update_session_status("completed", Len(leads))
    /\ pc' = "finish_log"
    /\ UNCHANGED <<auxVars, exc, parsed_stored, leads, next_id, query, logVars, searchLocals,
                   enrichLocals, idx, draftLocals, edits, calls, fp_outcome, scrape_out>>

\* pipeline_service.py 378-383
FinishLog ==
    /\ pc = "finish_log"
    /\ WriteProgress("export", 1000)
    /\ logs' = add_log(logs, "export", "party", "")
    /\ pc' = "done"
    /\ UNCHANGED <<auxVars, exc, dbVars, query, searchLocals, enrichLocals, idx, draftLocals, edits,
                   calls, fp_outcome, scrape_out>>

\* DbPoints if a database operation followed the completed commit
DbPointsAfterCompleted ==
    {"set_searching", "store_parsed", "fail_empty", "store_results", "commit_leads",
     "cleanup", "set_generating", "load_selected", "shortcut", "commit_drafts",
     "finish", "finish_log"}

\* positions whose next statement is a database operation
DbPoints == {"set_searching", "store_parsed", "fail_empty", "store_results",
             "commit_leads", "cleanup", "set_generating", "load_selected",
             "shortcut", "commit_drafts", "finish"}

\* str(e) of the exception a database operation raises at position p, kept
\* by its length in characters: the failed flush of the drafted messages
\* carries its statement and parameters (longer than the cap of line 387),
\* the other failures are short
ExcText(p) == IF p = "commit_drafts" THEN ErrCap + 1 ELSE 3

\* the error message keeping the whole exception text
ErrorMessageFull(text) == text

\* str(e)[:120] of line 387
ErrorMessage(text) == IF text < ErrCap THEN text ELSE ErrCap

\* the database operation raises: control passes to the except clause (385)
InternalFault ==
    /\ pc \in DbPoints
    /\ pc' = "handler"
    /\ exc' = ExcText(pc)
    /\ UNCHANGED <<auxVars, dbVars, query, logVars, searchLocals, enrichLocals, idx, draftLocals,
                   edits, calls, fp_outcome, scrape_out>>

\* pipeline_service.py 385-388: log the error, status failed
Handler ==
    /\ pc = "handler"
    /\ logs' = add_log(logs, "error", "x", ErrorMessage(exc))
    /\ _update_session_status("failed", -1)
    /\ pc' = "done"
    /\ UNCHANGED <<auxVars, exc, parsed_stored, leads, next_id, query, progress, progress_hist,
                   searchLocals, enrichLocals, idx, draftLocals, edits, calls, fp_outcome, scrape_out>>

\* ------------------------------------------------------- editing layer
\* api/leads.py update_lead: PATCH is_selected of one lead, while the run is
\* in flight (a request that sends the value the row already has changes
\* nothing and is left out)
update_lead ==
    /\ pc \notin {"idle", "done"}
    /\ edits < MaxEdits
    /\ \E k \in 1..Len(leads), v \in BOOLEAN :
          /\ leads[k].is_selected # v
          /\ leads' = [leads EXCEPT ![k].is_selected = v]
    /\ edits' = edits + 1
    /\ UNCHANGED <<auxVars, exc, pc, status, result_count, parsed_stored, next_id, query, logVars,
                   searchLocals, enrichLocals, idx, draftLocals, calls, fp_outcome, scrape_out>>

RunNext ==
    \/ Begin \/ ParseQuery \/ Search \/ FailEmpty \/ Scrape \/ EnrichDomain
    \/ PrepareLeads \/ CommitLeads \/ Cleanup \/ SetGenerating \/ LoadSelected
    \/ Shortcut \/ ShortcutLog \/ DraftLead \/ CommitDrafts \/ Finish \/ FinishLog
    \/ InternalFault \/ Handler

Next == StartRun \/ RunNext \/ update_lead

Spec == Init /\ [][Next]_vars

\* the event loop keeps scheduling the run's task, and every awaited
\* provider call returns or fails
FairSpec == Spec /\ WF_vars(StartRun) /\ WF_vars(RunNext)

\* ===================================================== activity log store
\* pipeline_log.py as a shared store: runs append and set progress, pollers
\* and readers read, clear removes a run.  Every operation body runs under
\* _lock, so each is one step.

Messages == {"a", "b"}

\* the offsets a reader may pass: `after: int = 0` has no lower bound
Offsets == (0 - (MaxLog + 1))..(MaxLog + 1)

ProgressValues == {set_progress("search", 150), set_progress("enrich", 350)}

\* Python's lst[after:]
SliceFrom(lst, after) ==
    LET n == Len(lst)
        start == IF after < 0
                 THEN (IF n + after < 0 THEN 0 ELSE n + after)
                 ELSE (IF after > n THEN n ELSE after)
    IN  SubSeq(lst, start + 1, n)

\* get_logs read as if `after` were the 1-based position of the last entry seen
get_logs_inclusive(store, session_id, after) ==
    SliceFrom(IF session_id \in DOMAIN store THEN store[session_id] ELSE <<>>, after - 1)

\* pipeline_log.get_logs: list(_logs.get(session_id, [])[after:])
get_logs(store, session_id, after) ==
    SliceFrom(IF session_id \in DOMAIN store THEN store[session_id] ELSE <<>>, after)

\* pipeline_log.get_progress: _progress.get(session_id, {"step": "", "pct": 0})
get_progress(store, session_id) ==
    IF session_id \in DOMAIN store THEN store[session_id] ELSE NoProgress

\* d[key] = value on a dict
DictSet(d, key, value) ==
    [x \in DOMAIN d \cup {key} |-> IF x = key THEN value ELSE d[x]]

\* d.pop(key, None) on a dict
DictPop(d, key) == [x \in DOMAIN d \ {key} |-> d[x]]

StoreFrame == UNCHANGED storeVars

FanFrame == UNCHANGED fanVars

ClsFrame == UNCHANGED clsVars

JunkFrame == UNCHANGED junkVars

SrchFrame == UNCHANGED srchVars

LaunchFrame == UNCHANGED launchVars

CapFrame == UNCHANGED capVars

FetchFrame == UNCHANGED fetchVars

EnrFrame == UNCHANGED enrVars

\* the pipeline model at rest
PipeFrame ==
    UNCHANGED <<pc, status, result_count, parsed_stored, query, parsed, logs, progress,
                search_queries, valid_results, db_results, scraped_map, unique_domains,
                idx, all_leads_data, pending, leads, next_id, sel, drafts, success_count,
                edits, calls, fp_outcome, scrape_out, progress_hist, exc>>

\* AppendLog on one list shared by all runs
AppendLogShared(r) ==
    /\ PipeFrame /\ FanFrame /\ ClsFrame /\ JunkFrame /\ SrchFrame /\ LaunchFrame /\ CapFrame /\ FetchFrame /\ EnrFrame
    /\ Len(appended[r]) < MaxLog
    /\ \E m \in Messages :
          /\ _logs' = [x \in DOMAIN _logs \cup {r} |->
                          add_log(get_logs(_logs, x, 0), "search", "globe", m)]
          /\ appended' = [appended EXCEPT ![r] = Append(@, LogEntry("search", "globe", m))]
    /\ life' = [life EXCEPT ![r] = "written"]
    /\ last_op' = [op |-> "append", run |-> r]
    /\ UNCHANGED <<_progress, received, cleared>>

\* pipeline_log.add_log called by run r
AppendLog(r) ==
    /\ PipeFrame /\ FanFrame /\ ClsFrame /\ JunkFrame /\ SrchFrame /\ LaunchFrame /\ CapFrame /\ FetchFrame /\ EnrFrame
    /\ Len(appended[r]) < MaxLog
    /\ \E m \in Messages :
          /\ _logs' = DictSet(_logs, r, add_log(get_logs(_logs, r, 0), "search", "globe", m))
          /\ appended' = [appended EXCEPT ![r] = Append(@, LogEntry("search", "globe", m))]
    /\ life' = [life EXCEPT ![r] = "written"]
    /\ last_op' = [op |-> "append", run |-> r]
    /\ UNCHANGED <<_progress, received, cleared>>

\* pipeline_log.set_progress called by run r
SetProgress(r) ==
    /\ PipeFrame /\ FanFrame /\ ClsFrame /\ JunkFrame /\ SrchFrame /\ LaunchFrame /\ CapFrame /\ FetchFrame /\ EnrFrame
    /\ \E v \in ProgressValues :
          /\ get_progress(_progress, r) # v
          /\ _progress' = DictSet(_progress, r, v)
    /\ life' = [life EXCEPT ![r] = "written"]
    /\ last_op' = [op |-> "progress", run |-> r]
    /\ UNCHANGED <<_logs, received, appended, cleared>>

\* api/pipeline.py get_pipeline_status polled for run "r1" with after = the
\* number of entries received so far
GetStatus ==
    /\ PipeFrame /\ FanFrame /\ ClsFrame /\ JunkFrame /\ SrchFrame /\ LaunchFrame /\ CapFrame /\ FetchFrame /\ EnrFrame
    /\ received' = received \o get_logs(_logs, "r1", Len(received))
    /\ last_op' = [op |-> "poll", run |-> "r1"]
    /\ UNCHANGED <<_logs, _progress, appended, life, cleared>>

\* get_logs / get_progress called with an arbitrary offset
ReadLogsSince(r) ==
    /\ PipeFrame /\ FanFrame /\ ClsFrame /\ JunkFrame /\ SrchFrame /\ LaunchFrame /\ CapFrame /\ FetchFrame /\ EnrFrame
    /\ last_op' = [op |-> "read", run |-> r]
    /\ UNCHANGED <<_logs, _progress, received, appended, life, cleared>>

\* clear that forgets the log but keeps the progress tuple
ClearLogsOnly(r) ==
    /\ PipeFrame /\ FanFrame /\ ClsFrame /\ JunkFrame /\ SrchFrame /\ LaunchFrame /\ CapFrame /\ FetchFrame /\ EnrFrame
    /\ life[r] = "written"
    /\ _logs' = DictPop(_logs, r)
    /\ _progress' = _progress
    /\ appended' = [appended EXCEPT ![r] = <<>>]
    /\ life' = [life EXCEPT ![r] = "cleared"]
    /\ cleared' = cleared \cup {r}
    /\ last_op' = [op |-> "clear", run |-> r]
    /\ UNCHANGED received

\* pipeline_log.clear
Clear(r) ==
    /\ PipeFrame /\ FanFrame /\ ClsFrame /\ JunkFrame /\ SrchFrame /\ LaunchFrame /\ CapFrame /\ FetchFrame /\ EnrFrame
    /\ life[r] = "written"
    /\ _logs' = DictPop(_logs, r)
    /\ _progress' = DictPop(_progress, r)
    /\ appended' = [appended EXCEPT ![r] = <<>>]
    /\ life' = [life EXCEPT ![r] = "cleared"]
    /\ cleared' = cleared \cup {r}
    /\ last_op' = [op |-> "clear", run |-> r]
    /\ UNCHANGED received

LogNext ==
    \E r \in RunIds :
       AppendLog(r) \/ SetProgress(r) \/ GetStatus \/ ReadLogsSince(r) \/ Clear(r)

LogSpec == Init /\ [][LogNext]_vars

\* ======================================================= bounded fan-out
\* scraper_service.scrape_many and the enrichment gather of
\* apollo_service.search_people: one asyncio task per item, each passing
\* through the module-level semaphore shared by all runs.

Tasks == {t \in RunIds \X (1..(MaxBatch + 1)) : t[2] <= batch[t[1]]}

ScrapeDone == {"ok", "error", "raised"}

EnrichDone == {"person", "none"}

\* the batches two concurrent runs hand to the fan-out
FanInit ==
    /\ PipeIdle /\ StoreIdle /\ ClsIdle /\ JunkIdle /\ SrchIdle /\ LaunchIdle /\ CapIdle /\ FetchIdle /\ EnrIdle
    /\ fan_kind \in {"scrape", "enrich"}
    /\ batch \in {b \in [RunIds -> 0..MaxBatch] : b["r2"] <= 1}
    /\ task = [t \in {u \in RunIds \X (1..(MaxBatch + 1)) : u[2] <= batch[u[1]]} |-> "queued"]
    /\ _semaphore = ScrapeLimit
    /\ _enrich_semaphore = EnrichLimit
    /\ results = [r \in RunIds |-> <<>>]
    /\ returned = [r \in RunIds |-> FALSE]

\* entering `async with _semaphore` without waiting for a free slot
ScrapeAcquireUnbounded(t) ==
    /\ PipeFrame /\ StoreFrame /\ ClsFrame /\ JunkFrame /\ SrchFrame /\ LaunchFrame /\ CapFrame /\ FetchFrame /\ EnrFrame
    /\ fan_kind = "scrape"
    /\ task[t] = "queued"
    /\ _semaphore' = _semaphore - 1
    /\ task' = [task EXCEPT ![t] = "fetching"]
    /\ UNCHANGED <<fan_kind, batch, _enrich_semaphore, results, returned>>

\* scraper_service.scrape: `async with _semaphore` entered
ScrapeAcquire(t) ==
    /\ PipeFrame /\ StoreFrame /\ ClsFrame /\ JunkFrame /\ SrchFrame /\ LaunchFrame /\ CapFrame /\ FetchFrame /\ EnrFrame
    /\ fan_kind = "scrape"
    /\ task[t] = "queued"
    /\ _semaphore > 0
    /\ _semaphore' = _semaphore - 1
    /\ task' = [task EXCEPT ![t] = "fetching"]
    /\ UNCHANGED <<fan_kind, batch, _enrich_semaphore, results, returned>>

\* _scrape_impl ends (result, result with error, or an exception leaving
\* scrape) and the semaphore is released
ScrapeFinish(t) ==
    /\ PipeFrame /\ StoreFrame /\ ClsFrame /\ JunkFrame /\ SrchFrame /\ LaunchFrame /\ CapFrame /\ FetchFrame /\ EnrFrame
    /\ fan_kind = "scrape"
    /\ task[t] = "fetching"
    /\ \E out \in ScrapeDone : task' = [task EXCEPT ![t] = out]
    /\ _semaphore' = _semaphore + 1
    /\ UNCHANGED <<fan_kind, batch, _enrich_semaphore, results, returned>>

\* the result scrape_many puts into `final` for one gathered item
ScrapeItemResult(t) ==
    [url |-> IF task[t] = "raised" THEN "" ELSE "u" \o ToString(t[2]),
     error |-> task[t] # "ok"]

\* scrape_many returning as soon as one item is finished, with the
\* results of the finished items only
ScrapeManyReturnEarly(r) ==
    /\ PipeFrame /\ StoreFrame /\ ClsFrame /\ JunkFrame /\ SrchFrame /\ LaunchFrame /\ CapFrame /\ FetchFrame /\ EnrFrame
    /\ fan_kind = "scrape"
    /\ ~returned[r]
    /\ \E k \in 1..batch[r] : task[<<r, k>>] \in ScrapeDone
    /\ results' = [results EXCEPT ![r] =
                      LET done == SelectSeq([k \in 1..batch[r] |-> <<r, k>>],
                                            LAMBDA t : task[t] \in ScrapeDone)
                      IN  [k \in 1..Len(done) |-> ScrapeItemResult(done[k])]]
    /\ returned' = [returned EXCEPT ![r] = TRUE]
    /\ UNCHANGED <<fan_kind, batch, task, _semaphore, _enrich_semaphore>>

\* scraper_service.scrape_many: gather(*tasks, return_exceptions=True)
\* completes, then one entry of `final` per gathered result
ScrapeManyReturn(r) ==
    /\ PipeFrame /\ StoreFrame /\ ClsFrame /\ JunkFrame /\ SrchFrame /\ LaunchFrame /\ CapFrame /\ FetchFrame /\ EnrFrame
    /\ fan_kind = "scrape"
    /\ ~returned[r]
    /\ \A k \in 1..batch[r] : task[<<r, k>>] \in ScrapeDone
    /\ results' = [results EXCEPT ![r] = [k \in 1..batch[r] |-> ScrapeItemResult(<<r, k>>)]]
    /\ returned' = [returned EXCEPT ![r] = TRUE]
    /\ UNCHANGED <<fan_kind, batch, task, _semaphore, _enrich_semaphore>>

\* apollo_service._enrich_person: a stub without id returns None before the
\* semaphore
EnrichSkip(t) ==
    /\ PipeFrame /\ StoreFrame /\ ClsFrame /\ JunkFrame /\ SrchFrame /\ LaunchFrame /\ CapFrame /\ FetchFrame /\ EnrFrame
    /\ fan_kind = "enrich"
    /\ task[t] = "queued"
    /\ task' = [task EXCEPT ![t] = "none"]
    /\ UNCHANGED <<fan_kind, batch, _semaphore, _enrich_semaphore, results, returned>>

\* _enrich_person: `async with _enrich_semaphore` entered
EnrichAcquire(t) ==
    /\ PipeFrame /\ StoreFrame /\ ClsFrame /\ JunkFrame /\ SrchFrame /\ LaunchFrame /\ CapFrame /\ FetchFrame /\ EnrFrame
    /\ fan_kind = "enrich"
    /\ task[t] = "queued"
    /\ _enrich_semaphore > 0
    /\ _enrich_semaphore' = _enrich_semaphore - 1
    /\ task' = [task EXCEPT ![t] = "requesting"]
    /\ UNCHANGED <<fan_kind, batch, _semaphore, results, returned>>

\* _enrich_person: the request ends with a person (enriched or stub) or
\* None, and the semaphore is released
EnrichFinish(t) ==
    /\ PipeFrame /\ StoreFrame /\ ClsFrame /\ JunkFrame /\ SrchFrame /\ LaunchFrame /\ CapFrame /\ FetchFrame /\ EnrFrame
    /\ fan_kind = "enrich"
    /\ task[t] = "requesting"
    /\ \E out \in EnrichDone : task' = [task EXCEPT ![t] = out]
    /\ _enrich_semaphore' = _enrich_semaphore + 1
    /\ UNCHANGED <<fan_kind, batch, _semaphore, results, returned>>

\* search_people: the gather completes, None results are dropped
SearchPeopleReturn(r) ==
    /\ PipeFrame /\ StoreFrame /\ ClsFrame /\ JunkFrame /\ SrchFrame /\ LaunchFrame /\ CapFrame /\ FetchFrame /\ EnrFrame
    /\ fan_kind = "enrich"
    /\ ~returned[r]
    /\ \A k \in 1..batch[r] : task[<<r, k>>] \in EnrichDone
    /\ results' = [results EXCEPT ![r] =
                      LET kept == SelectSeq([k \in 1..batch[r] |-> <<r, k>>],
                                            LAMBDA t : task[t] = "person")
                      IN  [k \in 1..Len(kept) |-> [url |-> "", error |-> FALSE]]]
    /\ returned' = [returned EXCEPT ![r] = TRUE]
    /\ UNCHANGED <<fan_kind, batch, task, _semaphore, _enrich_semaphore>>

FanNext ==
    \/ \E t \in Tasks :
          ScrapeAcquire(t) \/ ScrapeFinish(t) \/ EnrichSkip(t) \/ EnrichAcquire(t)
          \/ EnrichFinish(t)
    \/ \E r \in RunIds : ScrapeManyReturn(r) \/ SearchPeopleReturn(r)

FanSpec == FanInit /\ [][FanNext]_vars

\* ========================================================= lead grading
Fields == {"", " ", "x"}

\* the person dicts handed to _lead_quality
Persons ==
    [first_name : Fields, last_name : Fields, email : Fields, linkedin_url : Fields,
     title : Fields]

ClsInit ==
    /\ PipeIdle /\ StoreIdle /\ FanIdle /\ JunkIdle /\ SrchIdle /\ LaunchIdle /\ CapIdle /\ FetchIdle /\ EnrIdle
    /\ person_in \in Persons
    /\ quality_out = "none"

\* one call of apollo_service._lead_quality
Classify ==
    /\ PipeFrame /\ StoreFrame /\ FanFrame /\ JunkFrame /\ SrchFrame /\ LaunchFrame /\ CapFrame /\ FetchFrame /\ EnrFrame
    /\ quality_out = "none"
    /\ quality_out' = _lead_quality(person_in)
    /\ UNCHANGED person_in

ClsNext == Classify

ClsSpec == ClsInit /\ [][ClsNext]_vars

\* ========================================================== junk filter
\* the Lead rows handed to _is_junk_lead (a None column reads as "")
JunkLeads ==
    {Lead(1, 1, fn, ln, em, "", li, cn, cd, "") :
        fn \in Fields, ln \in Fields, em \in Fields, li \in Fields, cn \in Fields,
        cd \in {"", "acme.io"}}

JunkInit ==
    /\ PipeIdle /\ StoreIdle /\ FanIdle /\ ClsIdle /\ SrchIdle /\ LaunchIdle /\ CapIdle /\ FetchIdle /\ EnrIdle
    /\ lead_in \in JunkLeads
    /\ junk_out = <<>>

\* one call of pipeline_service._is_junk_lead
IsJunk ==
    /\ PipeFrame /\ StoreFrame /\ FanFrame /\ ClsFrame /\ SrchFrame /\ LaunchFrame /\ CapFrame /\ FetchFrame /\ EnrFrame
    /\ junk_out = <<>>
    /\ junk_out' = <<_is_junk_lead(lead_in)>>
    /\ UNCHANGED lead_in

JunkNext == IsJunk

JunkSpec == JunkInit /\ [][JunkNext]_vars

\* ======================================================== search merging
\* what Serper can return when search is exercised alone: the items of the
\* run model, a second hit on the same link, and an item without link
SearchItems ==
    RawItems \cup
    { [link |-> "https://www.a.com/", host |-> "www.a.com", title |-> "Acme again"],
      [link |-> "",                   host |-> "",          title |-> "No link"],
      [link |-> "https://UK.LinkedIn.com/in/x", host |-> "UK.LinkedIn.com", title |-> "Profile"],
      [link |-> "https://www.dropbox.com/", host |-> "www.dropbox.com", title |-> "Dropbox"] }

\* what one _search_single call can yield
SearchOutcomes ==
    {[raise |-> TRUE, organic |-> <<>>]}
    \cup {[raise |-> FALSE, organic |-> o] : o \in SeqsUpTo(SearchItems, MaxHits)}

SrchInit ==
    /\ PipeIdle /\ StoreIdle /\ FanIdle /\ ClsIdle /\ JunkIdle /\ LaunchIdle /\ CapIdle /\ FetchIdle /\ EnrIdle
    /\ per_query \in [1..1 -> SearchOutcomes] \cup [1..2 -> SearchOutcomes]
    /\ key_ok \in BOOLEAN
    /\ search_out = <<>>

\* one call of serper_service.search
DoSearch ==
    /\ PipeFrame /\ StoreFrame /\ FanFrame /\ ClsFrame /\ JunkFrame /\ LaunchFrame /\ CapFrame /\ FetchFrame /\ EnrFrame
    /\ search_out = <<>>
    /\ search_out' = <<search(per_query, key_ok)>>
    /\ UNCHANGED <<per_query, key_ok>>

SrchNext == DoSearch

SrchSpec == SrchInit /\ [][SrchNext]_vars

\* ============================================================== launch
\* api/pipeline.py: the POST /run handler, the background wrapper, and the
\* launched runs as far as their session status and their generate_email
\* arguments go.  The handler has no await, so it is one step of the event
\* loop; the background task starts after the response is sent.

\* PipelineRunRequest bodies (tone and channel are Literal-typed)
Payloads ==
    [query : {"find ceos", " "}, sender_context : {"we sell bolts"},
     tone : {"direct", "bold"}, channel : {"email", "linkedin"}]

\* run_pipeline(..., tone="direct", channel="email")
DefaultChannel == "email"

\* the status updates of run_pipeline: lines 69, 113, 139, 296, 306/377, 388
RunTransitions ==
    { <<"pending", "searching">>, <<"searching", "enriching">>, <<"searching", "failed">>,
      <<"enriching", "generating">>, <<"generating", "completed">>,
      <<"pending", "failed">>, <<"enriching", "failed">>, <<"generating", "failed">> }

Rejected(detail) == [code |-> 400, detail |-> detail, session_id |-> 0, status |-> ""]

\* the handler creating the session row before it looks at the API keys
api_run_pipeline_session_first ==
    /\ PipeFrame /\ StoreFrame /\ FanFrame /\ ClsFrame /\ JunkFrame /\ SrchFrame /\ CapFrame /\ FetchFrame /\ EnrFrame
    /\ Len(responses) < MaxRequests
    /\ \E payload \in Payloads, serper \in BOOLEAN, openai \in BOOLEAN :
          LET missing_keys == (IF serper THEN <<>> ELSE <<"serper">>)
                              \o (IF openai THEN <<>> ELSE <<"openai">>)
              id == Len(sessions) + 1
          IN  IF ~Truthy(Strip(payload.query))
              THEN /\ responses' = Append(responses, Rejected(<<"Query cannot be empty">>))
                   /\ UNCHANGED <<sessions, bg_tasks, payloads, launches>>
              ELSE /\ sessions' = Append(sessions, [id |-> id,
                                                    raw_query |-> Strip(payload.query),
                                                    status |-> "pending"])
                   /\ payloads' = Append(payloads, payload)
                   /\ launches' = Append(launches, 0)
                   /\ IF missing_keys # <<>>
                      THEN /\ responses' = Append(responses, Rejected(missing_keys))
                           /\ UNCHANGED bg_tasks
                      ELSE /\ bg_tasks' = bg_tasks \cup
                                             {[session_id |-> id, query |-> Strip(payload.query),
                                               sender_context |-> payload.sender_context,
                                               tone |-> payload.tone]}
                           /\ responses' = Append(responses,
                                                  [code |-> 202, detail |-> <<>>, session_id |-> id,
                                                   status |-> sessions'[id].status])
    /\ UNCHANGED <<runs, draft_calls>>

\* api/pipeline.py run_pipeline: one POST /api/pipeline/run request
api_run_pipeline ==
    /\ PipeFrame /\ StoreFrame /\ FanFrame /\ ClsFrame /\ JunkFrame /\ SrchFrame /\ CapFrame /\ FetchFrame /\ EnrFrame
    /\ Len(responses) < MaxRequests
    /\ \E payload \in Payloads, serper \in BOOLEAN, openai \in BOOLEAN :
          LET missing_keys == (IF serper THEN <<>> ELSE <<"serper">>)
                              \o (IF openai THEN <<>> ELSE <<"openai">>)
              id == Len(sessions) + 1
          IN  IF ~Truthy(Strip(payload.query))
              THEN /\ responses' = Append(responses, Rejected(<<"Query cannot be empty">>))
                   /\ UNCHANGED <<sessions, bg_tasks, payloads, launches>>
              ELSE IF missing_keys # <<>>
              THEN /\ responses' = Append(responses, Rejected(missing_keys))
                   /\ UNCHANGED <<sessions, bg_tasks, payloads, launches>>
              ELSE /\ sessions' = Append(sessions, [id |-> id,
                                                    raw_query |-> Strip(payload.query),
                                                    status |-> "pending"])
                   /\ bg_tasks' = bg_tasks \cup
                                      {[session_id |-> id, query |-> Strip(payload.query),
                                        sender_context |-> payload.sender_context,
                                        tone |-> payload.tone]}
                   /\ responses' = Append(responses,
                                          [code |-> 202, detail |-> <<>>, session_id |-> id,
                                           status |-> sessions'[id].status])
                   /\ payloads' = Append(payloads, payload)
                   /\ launches' = Append(launches, 0)
    /\ UNCHANGED <<runs, draft_calls>>

\* the wrapper leaving its task on the queue: it can be started again
_run_pipeline_background_again(t) ==
    /\ PipeFrame /\ StoreFrame /\ FanFrame /\ ClsFrame /\ JunkFrame /\ SrchFrame /\ CapFrame /\ FetchFrame /\ EnrFrame
    /\ t \in bg_tasks
    /\ runs' = DictSet(runs, t.session_id,
                       [query |-> t.query, sender_context |-> t.sender_context,
                        tone |-> t.tone, channel |-> DefaultChannel, drafts |-> 0])
    /\ launches' = [launches EXCEPT ![t.session_id] = @ + 1]
    /\ UNCHANGED <<sessions, responses, bg_tasks, draft_calls, payloads>>

\* api/pipeline.py _run_pipeline_background: the task starts and calls
\* pipeline_service.run_pipeline with session_id, query, sender_context and
\* tone; channel is not passed and takes its default
_run_pipeline_background(t) ==
    /\ PipeFrame /\ StoreFrame /\ FanFrame /\ ClsFrame /\ JunkFrame /\ SrchFrame /\ CapFrame /\ FetchFrame /\ EnrFrame
    /\ t \in bg_tasks
    /\ bg_tasks' = bg_tasks \ {t}
    /\ runs' = DictSet(runs, t.session_id,
                       [query |-> t.query, sender_context |-> t.sender_context,
                        tone |-> t.tone, channel |-> DefaultChannel, drafts |-> 0])
    /\ launches' = [launches EXCEPT ![t.session_id] = @ + 1]
    /\ UNCHANGED <<sessions, responses, draft_calls, payloads>>

\* a launched run performs its next _update_session_status and writes the
\* activity-log entry of that phase under its session id
RunAdvance(sid) ==
    /\ PipeFrame /\ FanFrame /\ ClsFrame /\ JunkFrame /\ SrchFrame /\ CapFrame /\ FetchFrame /\ EnrFrame
    /\ sid \in DOMAIN runs
    /\ \E st \in {"searching", "enriching", "generating", "completed", "failed"} :
          /\ <<sessions[sid].status, st>> \in RunTransitions
          /\ sessions' = [sessions EXCEPT ![sid].status = st]
          /\ _logs' = DictSet(_logs, sid, add_log(get_logs(_logs, sid, 0), st, "", ""))
    /\ UNCHANGED <<_progress, received, appended, life, cleared, last_op>>
    /\ UNCHANGED <<responses, bg_tasks, runs, draft_calls, payloads, launches>>

\* pipeline_service.py 349-351: a launched run, generating, calls
\* generate_email(lead_data, sender_context, query, tone=tone, channel=channel)
DraftCall(sid) ==
    /\ PipeFrame /\ StoreFrame /\ FanFrame /\ ClsFrame /\ JunkFrame /\ SrchFrame /\ CapFrame /\ FetchFrame /\ EnrFrame
    /\ sid \in DOMAIN runs
    /\ sessions[sid].status = "generating"
    /\ runs[sid].drafts < MaxDrafts
    /\ draft_calls' = draft_calls \cup
                         {[session_id |-> sid, n |-> runs[sid].drafts + 1,
                           sender_context |-> runs[sid].sender_context,
                           original_query |-> runs[sid].query,
                           tone |-> runs[sid].tone, channel |-> runs[sid].channel]}
    /\ runs' = [runs EXCEPT ![sid].drafts = @ + 1]
    /\ UNCHANGED <<sessions, responses, bg_tasks, payloads, launches>>

LaunchNext ==
    \/ api_run_pipeline
    \/ \E t \in bg_tasks : _run_pipeline_background(t)
    \/ \E sid \in DOMAIN runs : RunAdvance(sid) \/ DraftCall(sid)

LaunchSpec == Init /\ [][LaunchNext]_vars

\* ================================================ scrape and domain caps
\* pipeline_service.py 143-222 on a run whose search returned many results:
\* which URLs are handed to scrape_many and which domains to search_people.
\* What the calls return does not influence which calls are made.

\* db_results of such a run: n rows with distinct non-empty URLs (search
\* keeps only those) over d domains; every (d+1)-th row has an empty domain
CapRows(n, d) ==
    [k \in 1..n |->
        [id |-> k, url |-> "u" \o ToString(k), title |-> "",
         domain |-> IF (k - 1) % (d + 1) = 0 THEN "" ELSE "d" \o ToString((k - 1) % (d + 1))]]

CapInit ==
    /\ PipeIdle /\ StoreIdle /\ FanIdle /\ ClsIdle /\ JunkIdle /\ SrchIdle /\ LaunchIdle
    /\ FetchIdle /\ EnrIdle
    /\ \E n \in 0..MaxResults, d \in 0..MaxDomains : cap_rows = CapRows(n, d)
    /\ cap_pc = "store_results"
    /\ cap_domains = <<>>
    /\ cap_idx = 0
    /\ cap_calls = <<>>

RECURSIVE ListOf(_)
\* list(a_set) in one of its orders
ListOf(S) ==
    IF S = {} THEN <<>>
    ELSE LET x == CHOOSE y \in S : TRUE IN <<x>> \o ListOf(S \ {x})

\* list(set(...)) without the slice
UniqueDomainsUncapped(rows) ==
    LET doms == {rows[k].domain : k \in {j \in 1..Len(rows) : Truthy(rows[j].domain)}}
    IN  {ListOf(doms)}

\* unique_domains = list(set(r.domain for r in db_results if r.domain))[:15]:
\* the iteration order of a set of strings is arbitrary, so any DomainCap of
\* the domains can make the cut
UniqueDomains(rows) ==
    LET doms == {rows[k].domain : k \in {j \in 1..Len(rows) : Truthy(rows[j].domain)}}
        size == IF Cardinality(doms) < DomainCap THEN Cardinality(doms) ELSE DomainCap
    IN  {ListOf(S) : S \in {T \in SUBSET doms : Cardinality(T) = size}}

\* pipeline_service.py 143-186: the URLs go to scrape_many, which starts one
\* scrape per URL (scraper_service.py 180); then unique_domains is chosen
SelectTargets ==
    /\ PipeFrame /\ StoreFrame /\ FanFrame /\ ClsFrame /\ JunkFrame /\ SrchFrame /\ LaunchFrame
    /\ FetchFrame /\ EnrFrame
    /\ cap_pc = "store_results"
    /\ LET urls_to_scrape == UrlsToScrape(cap_rows)
       IN  cap_calls' = cap_calls \o [k \in 1..Len(urls_to_scrape) |->
                                         <<"FetchPage", urls_to_scrape[k]>>]
    /\ cap_domains' \in UniqueDomains(cap_rows)
    /\ cap_idx' = 0
    /\ cap_pc' = "enrich_loop"
    /\ UNCHANGED cap_rows

\* pipeline_service.py 189-222: one iteration of the domain loop
EnrichNext ==
    /\ PipeFrame /\ StoreFrame /\ FanFrame /\ ClsFrame /\ JunkFrame /\ SrchFrame /\ LaunchFrame
    /\ FetchFrame /\ EnrFrame
    /\ cap_pc = "enrich_loop"
    /\ cap_idx < Len(cap_domains)
    /\ cap_calls' = Append(cap_calls, <<"FindPeople", cap_domains[cap_idx + 1]>>)
    /\ \E outcome \in {"ok", "error", "raise"} : cap_idx' = NextUnit(cap_idx, outcome)
    /\ UNCHANGED <<cap_rows, cap_pc, cap_domains>>

\* the domain loop is exhausted
EnrichEnd ==
    /\ PipeFrame /\ StoreFrame /\ FanFrame /\ ClsFrame /\ JunkFrame /\ SrchFrame /\ LaunchFrame
    /\ FetchFrame /\ EnrFrame
    /\ cap_pc = "enrich_loop"
    /\ cap_idx = Len(cap_domains)
    /\ cap_pc' = "done"
    /\ UNCHANGED <<cap_rows, cap_domains, cap_idx, cap_calls>>

CapNext == SelectTargets \/ EnrichNext \/ EnrichEnd

CapSpec == CapInit /\ [][CapNext]_vars

\* ========================================================== page fetch
\* scraper_service.scrape / _scrape_impl for one URL, the entry scrape_many
\* puts into its list for it, and the scraped_map loop of the orchestrator.

FetchUrls == {"https://www.a.com/", "https://b.com/", "https://c.org/x.pdf", "http://d.net/"}

\* status codes for which response.raise_for_status() raises
HttpErrors == {403, 404, 500}

FetchInit ==
    /\ PipeIdle /\ StoreIdle /\ FanIdle /\ ClsIdle /\ JunkIdle /\ SrchIdle /\ LaunchIdle
    /\ CapIdle /\ EnrIdle
    /\ fetch_url \in FetchUrls
    /\ fetch_pc = "get"
    /\ fetch_result = NewResult(fetch_url)
    /\ fetch_failure = "none"
    /\ fetch_final = <<>>
    /\ fetch_map = EmptyMap

\* the except clauses without the catch-all: only httpx errors are handled
except_clauses_httpx_only(kind, code) ==
    CASE kind = "timeout" -> [pc |-> "returned", error |-> "Request timed out after 15 seconds"]
      [] kind = "status" -> [pc |-> "returned", error |-> "HTTP " \o ToString(code)]
      [] OTHER -> [pc |-> "raised", error |-> ""]

\* scraper_service.py 168-175: the except clauses of _scrape_impl and the
\* return that follows them
except_clauses(kind, code) ==
    CASE kind = "timeout" -> [pc |-> "returned", error |-> "Request timed out after 15 seconds"]
      [] kind = "status" -> [pc |-> "returned", error |-> "HTTP " \o ToString(code)]
      [] OTHER -> [pc |-> "returned", error |-> "Scraping failed: boom"]

\* an exception of the given kind is raised inside the try block
Raise(kind, code, result) ==
    /\ fetch_pc' = except_clauses(kind, code).pc
    /\ fetch_result' = [result EXCEPT !.error = except_clauses(kind, code).error]
    /\ fetch_failure' = kind

\* scraper_service.py 53-62: the GET of the URL, raise_for_status, content type
FetchGet ==
    /\ PipeFrame /\ StoreFrame /\ FanFrame /\ ClsFrame /\ JunkFrame /\ SrchFrame /\ LaunchFrame
    /\ CapFrame /\ EnrFrame
    /\ fetch_pc = "get"
    /\ \/ Raise("timeout", 0, fetch_result)
       \/ \E code \in HttpErrors : Raise("status", code, fetch_result)
       \/ Raise("other", 0, fetch_result)
       \/ \* neither text/html nor application/xhtml: lines 60-62
          /\ fetch_result' = [fetch_result EXCEPT !.error = "Non-HTML content type: application/pdf"]
          /\ fetch_failure' = "content_type"
          /\ fetch_pc' = "returned"
       \/ \* an HTML response
          /\ fetch_pc' = "parse"
          /\ UNCHANGED <<fetch_result, fetch_failure>>
    /\ UNCHANGED <<fetch_url, fetch_final, fetch_map>>

\* scraper_service.py 64-119: title, description, body text, emails, links;
\* an exception can leave the block before or after the title is stored
FetchParse ==
    /\ PipeFrame /\ StoreFrame /\ FanFrame /\ ClsFrame /\ JunkFrame /\ SrchFrame /\ LaunchFrame
    /\ CapFrame /\ EnrFrame
    /\ fetch_pc = "parse"
    /\ \/ \E page \in {"empty", "title", "text"} :
             /\ fetch_result' = [fetch_result EXCEPT
                   !.title = IF page \in {"title", "text"} THEN PageTitle(fetch_url) ELSE "",
                   !.text_content = IF page = "text" THEN PageText(fetch_url) ELSE ""]
             /\ fetch_pc' = "subpage"
             /\ UNCHANGED fetch_failure
       \/ Raise("other", 0, fetch_result)
       \/ Raise("other", 0, [fetch_result EXCEPT !.title = PageTitle(fetch_url)])
    /\ UNCHANGED <<fetch_url, fetch_final, fetch_map>>

\* scraper_service.py 121-166: at most one priority sub-page, best effort
\* (whatever goes wrong there is swallowed by `except Exception: pass`)
FetchSubpage ==
    /\ PipeFrame /\ StoreFrame /\ FanFrame /\ ClsFrame /\ JunkFrame /\ SrchFrame /\ LaunchFrame
    /\ CapFrame /\ EnrFrame
    /\ fetch_pc = "subpage"
    /\ \/ fetch_result' = [fetch_result EXCEPT !.subpage_context = "About us"]
       \/ \* no link, a non-HTML or non-200 answer, or an exception
          UNCHANGED fetch_result
    /\ fetch_pc' = "returned"
    /\ UNCHANGED <<fetch_url, fetch_failure, fetch_final, fetch_map>>

RECURSIVE JoinParts(_)
\* " | ".join(context_parts)
JoinParts(parts) ==
    IF parts = <<>> THEN ""
    ELSE IF Len(parts) = 1 THEN parts[1]
    ELSE parts[1] \o " | " \o JoinParts(Tail(parts))

\* the scraped_map loop of pipeline_service.py 153-168 over a list of result
\* dicts (meta_description stays empty; a later entry of a URL overwrites)
ScrapedMap(scraped_data) ==
    LET ok == {k \in 1..Len(scraped_data) :
                  Truthy(scraped_data[k].url) /\ ~Truthy(scraped_data[k].error)}
        last(u) == CHOOSE k \in ok : scraped_data[k].url = u
                                     /\ \A j \in ok : scraped_data[j].url = u => j <= k
    IN  [u \in {scraped_data[k].url : k \in ok} |->
            LET sd == scraped_data[last(u)]
            IN  JoinParts(SelectSeq(<<sd.title, sd.text_content, sd.subpage_context>>, Truthy))]

\* scraper_service.py 181-188: gather returns, an exception becomes
\* {"url": "", "error": str(r)}; then pipeline_service.py 153-168
FetchReturn ==
    /\ PipeFrame /\ StoreFrame /\ FanFrame /\ ClsFrame /\ JunkFrame /\ SrchFrame /\ LaunchFrame
    /\ CapFrame /\ EnrFrame
    /\ fetch_pc \in {"returned", "raised"}
    /\ fetch_final' = IF fetch_pc = "raised"
                      THEN <<[NewResult("") EXCEPT !.error = "boom"]>>
                      ELSE <<fetch_result>>
    /\ fetch_map' = ScrapedMap(fetch_final')
    /\ fetch_pc' = "done"
    /\ UNCHANGED <<fetch_url, fetch_result, fetch_failure>>

FetchNext == FetchGet \/ FetchParse \/ FetchSubpage \/ FetchReturn

FetchSpec == FetchInit /\ [][FetchNext]_vars

\* ====================================================== people search
\* apollo_service.search_people with _enrich_person and _stub_to_result: the
\* search request, one enrichment request per returned stub, the quality
\* gate, and the list handed back to the orchestrator.

EnrDomain == "acme.io"

\* obfuscated people of the search answer (people_raw)
Stubs ==
    [id : {"", "p1"}, first_name : Fields, title : {"", "CEO"}, org_name : {"Acme"}]

\* the "person" object of an enrichment answer
EnrichedPersons ==
    [first_name : Fields, last_name : {"", "Lee"}, email : {"", "e@x"},
     linkedin_url : {"", "li/x"}, title : {"", "CEO"}]

\* a stub together with what its enrichment request does: not sent (stub
\* without id), answered with a person, failed with an HTTP status, failed
\* with another exception
EnrItems ==
    {[stub |-> st, kind |-> "none", person |-> NoPerson] : st \in {x \in Stubs : x.id = ""}}
    \cup {[stub |-> st, kind |-> k, person |-> NoPerson] :
             st \in {x \in Stubs : x.id # ""}, k \in {"status", "other"}}
    \cup {[stub |-> [id |-> "p1", first_name |-> "A", title |-> "CEO", org_name |-> "Acme"],
           kind |-> "ok", person |-> p] : p \in EnrichedPersons}

EnrInit ==
    /\ PipeIdle /\ StoreIdle /\ FanIdle /\ ClsIdle /\ JunkIdle /\ SrchIdle /\ LaunchIdle
    /\ CapIdle /\ FetchIdle
    /\ enr_search \in {"ok", "no_key", "status", "other"}
    /\ enr_items \in IF enr_search = "ok" THEN SeqsUpTo(EnrItems, MaxStubs) ELSE {<<>>}
    /\ enr_out = <<>>

\* apollo_service._stub_to_result
_stub_to_result(stub, domain) ==
    [first_name |-> stub.first_name, last_name |-> "", email |-> "", linkedin_url |-> "",
     title |-> stub.title, organization_name |-> stub.org_name,
     organization_domain |-> domain]

\* _enrich_person handing the stub back ungraded when the request failed
_enrich_person_stub_ungraded(item, domain) ==
    IF ~Truthy(item.stub.id) THEN <<>>
    ELSE IF item.kind = "ok"
    THEN LET person_data == [first_name |-> item.person.first_name,
                             last_name |-> item.person.last_name,
                             email |-> item.person.email,
                             linkedin_url |-> item.person.linkedin_url,
                             title |-> item.person.title,
                             organization_name |-> "Acme",
                             organization_domain |-> domain]
         IN  IF _lead_quality(person_data) = "skip" THEN <<>> ELSE <<person_data>>
    ELSE <<_stub_to_result(item.stub, domain)>>

\* apollo_service._enrich_person: <<>> is None, otherwise the person dict
_enrich_person(item, domain) ==
    IF ~Truthy(item.stub.id) THEN <<>>
    ELSE IF item.kind = "ok"
    THEN LET person_data == [first_name |-> item.person.first_name,
                             last_name |-> item.person.last_name,
                             email |-> item.person.email,
                             linkedin_url |-> item.person.linkedin_url,
                             title |-> item.person.title,
                             organization_name |-> "Acme",
                             organization_domain |-> domain]
         IN  IF _lead_quality(person_data) = "skip" THEN <<>> ELSE <<person_data>>
    ELSE LET stub_result == _stub_to_result(item.stub, domain)
         IN  IF _lead_quality(stub_result) # "skip" THEN <<stub_result>> ELSE <<>>

\* apollo_service.search_people: an error dict when the key is missing or
\* the search request fails, otherwise the non-None enrichment results
FindPeople ==
    /\ PipeFrame /\ StoreFrame /\ FanFrame /\ ClsFrame /\ JunkFrame /\ SrchFrame /\ LaunchFrame
    /\ CapFrame /\ FetchFrame
    /\ enr_out = <<>>
    /\ enr_out' =
          IF enr_search # "ok" THEN <<[error |-> TRUE, people |-> <<>>]>>
          ELSE <<[error |-> FALSE,
                  people |-> Flatten([k \in 1..Len(enr_items) |->
                                         _enrich_person(enr_items[k], EnrDomain)])]>>
    /\ UNCHANGED <<enr_search, enr_items>>

EnrNext == FindPeople

EnrSpec == EnrInit /\ [][EnrNext]_vars

\* ========================================================= quality gate
\* the two filters a contact passes: _lead_quality in the adapter, then, on
\* the Lead row built from it, _is_junk_lead in the cleanup of the run.

\* person dicts as _enrich_person and _stub_to_result shape them
GatePersons ==
    [first_name : Fields, last_name : Fields, email : Fields, linkedin_url : Fields,
     title : Fields, organization_name : {"", "Acme"}, organization_domain : {"acme.io"}]

GateInit ==
    /\ PipeIdle /\ StoreIdle /\ FanIdle /\ SrchIdle /\ LaunchIdle /\ CapIdle /\ FetchIdle /\ EnrIdle
    /\ JunkIdle
    /\ person_in \in GatePersons
    /\ quality_out = "none"

\* the Lead row without its last name
LeadOfFirstNameOnly(person) ==
    Lead(1, 0, person.first_name, "", person.email, person.title,
         person.linkedin_url, person.organization_name, person.organization_domain, "")

\* pipeline_service.py 257-277: the Lead row built from a contact
LeadOf(person) ==
    Lead(1, 0, person.first_name, person.last_name, person.email, person.title,
         person.linkedin_url, person.organization_name, person.organization_domain, "")

\* pipeline_service.py 256-280: the contact becomes a Lead row
Materialize ==
    /\ PipeFrame /\ StoreFrame /\ FanFrame /\ SrchFrame /\ LaunchFrame /\ CapFrame /\ FetchFrame
    /\ EnrFrame
    /\ lead_in.id = 0
    /\ lead_in' = LeadOf(person_in)
    /\ UNCHANGED <<person_in, quality_out, junk_out>>

\* pipeline_service.py 283-288: the cleanup pass tests the row
CleanupTest ==
    /\ lead_in.id # 0
    /\ IsJunk

GateNext == Classify \/ Materialize \/ CleanupTest

GateSpec == GateInit /\ [][GateNext]_vars

\* ================================================================ claims
Terminal == {"completed", "failed"}

\* an internal fault has been raised in this run
Faulted == pc = "handler" \/ \E k \in 1..Len(logs) : logs[k].step = "error"

SpecTransitions ==
    { <<"pending", "searching">>, <<"searching", "enriching">>, <<"searching", "failed">>,
      <<"enriching", "generating">>, <<"generating", "completed">> }

FaultTransitions ==
    { <<"pending", "failed">>, <<"enriching", "failed">>, <<"generating", "failed">> }

\* C1 as stated: the status of an existing session changes only along
\* pending->searching, searching->enriching, searching->failed,
\* enriching->generating, generating->completed (so completed and failed
\* are absorbing).
C1_OnlySpecTransitions ==
    [][(status # "absent" /\ status' # status) => <<status, status'>> \in SpecTransitions]_vars

\* C1 amended: the status changes only along the five transitions above or,
\* when an internal exception reaches the except clause, from pending,
\* searching, enriching or generating to failed; completed and failed are
\* absorbing.
C1_Transitions ==
    [][(status # "absent" /\ status' # status) =>
          <<status, status'>> \in SpecTransitions \cup FaultTransitions]_vars

\* a run that was generating when an internal fault failed it
C1_Witness ==
    /\ pc = "done"
    /\ status = "failed"
    /\ Faulted
    /\ sel # <<>>

C3_NoJunkWhenTerminal ==
    status \in Terminal => \A k \in 1..Len(leads) : ~_is_junk_lead(leads[k])

\* ------------------------------------------------------------------ C4
\* the lead has a name, an email, a social URL or a company identity
\* (company name or company domain)
HasIdentity(lead) ==
    \/ Truthy(Strip(lead.first_name)) \/ Truthy(Strip(lead.last_name))
    \/ Truthy(Strip(lead.email))
    \/ Truthy(Strip(lead.linkedin_url))
    \/ Truthy(Strip(lead.company_name)) \/ Truthy(Strip(lead.company_domain))

HasContext == \E u \in DOMAIN scraped_map : Truthy(scraped_map[u])

\* C5 as stated: a run whose enrichment yields zero contacts while some
\* search result has non-empty scraped context ends completed with
\* result_count >= 1 and at least one lead persisted (runs hit by an
\* internal fault left aside).
C5_FallbackProducesOutput ==
    (pc = "done" /\ ~Faulted /\ all_leads_data = <<>> /\ HasContext) =>
        /\ status = "completed"
        /\ result_count >= 1
        /\ Len(leads) >= 1

\* ------------------------------------------------------------------ C6
\* the scrape result of a search result row (rows past the scrape cap or
\* without URL have none: an error result stands for them)
ScrapeResultOf(sr) ==
    LET urls == UrlsToScrape(db_results)
        ks == {k \in 1..Len(scrape_out) : urls[k] = sr.url}
    IN  IF ks = {} THEN ScrapeResult(sr.url, "error")
        ELSE ScrapeResult(sr.url, scrape_out[CHOOSE k \in ks : TRUE])

\* the scrape succeeded and extracted some text (title or body)
ScrapedWithText(sr) ==
    LET sd == ScrapeResultOf(sr)
    IN  ~sd.error /\ (Truthy(sd.title) \/ Truthy(sd.text_content))

\* C6: when enrichment yields zero contacts, the leads committed by the
\* fallback are exactly one per search result whose scrape succeeded with
\* non-empty text and none for the other results; each has company_domain
\* equal to the domain of its result and scraped_context equal to the text
\* extracted from its page.
C6_FallbackLeads ==
    (pc = "cleanup" /\ all_leads_data = <<>>) =>
        /\ \A k \in 1..Len(db_results) :
              LET sr == db_results[k]
                  mine == {j \in 1..Len(leads) : leads[j].search_result_id = sr.id}
              IN  IF ScrapedWithText(sr)
                  THEN /\ Cardinality(mine) = 1
                       /\ \A j \in mine :
                             /\ leads[j].company_domain = sr.domain
                             /\ leads[j].scraped_context = JoinContext(ScrapeResultOf(sr))
                  ELSE mine = {}
        /\ \A j \in 1..Len(leads) :
              \E k \in 1..Len(db_results) : leads[j].search_result_id = db_results[k].id

\* zero contacts, two search results, the scrape of exactly one of them
\* gave text, and its fallback lead is committed
C6_Witness ==
    /\ pc = "cleanup"
    /\ all_leads_data = <<>>
    /\ Len(db_results) = 2
    /\ Cardinality({k \in 1..2 : ScrapedWithText(db_results[k])}) = 1
    /\ Len(leads) = 1

\* ------------------------------------------------------------------ C7
\* the search has run and its merged error-free result set is empty
EmptySearch == parsed_stored /\ valid_results = <<>>

AllAttempted ==
    unique_domains # <<>> /\ \A d \in Range(unique_domains) : fp_outcome[d] # "none"

FailedDomains == {d \in Range(unique_domains) : fp_outcome[d] \in {"error", "raise"}}

\* number of log entries that mark domain d as failed
FailureMarks(d) ==
    Cardinality({k \in 1..Len(logs) : logs[k].step = "enrich" /\ logs[k].emoji = "warn"
                                        /\ logs[k].about = d})

\* C8 as stated: when FindPeople failed for some but not all domains, the
\* run goes on to generating (it ends completed unless an internal fault
\* hits it), the contacts of the other domains are persisted as leads, and
\* exactly one log entry marks each failed domain.
C8_PartialFailure ==
    (AllAttempted /\ FailedDomains # {} /\ FailedDomains # Range(unique_domains)) =>
        /\ \A d \in FailedDomains : FailureMarks(d) = 1
        /\ (pc = "cleanup" =>
              \A k \in 1..Len(all_leads_data) :
                 \E j \in 1..Len(leads) :
                    /\ leads[j].first_name = all_leads_data[k].person.first_name
                    /\ leads[j].last_name = all_leads_data[k].person.last_name
                    /\ leads[j].email = all_leads_data[k].person.email)
        /\ ((pc = "done" /\ ~Faulted) => status = "completed")

\* ------------------------------------------------------------------ C9
\* the step makes a FindPeople or a DraftMessage call
UnitCall ==
    /\ Len(calls') = Len(calls) + 1
    /\ calls'[Len(calls')][1] \in {"FindPeople", "DraftMessage"}

\* C9 as stated: every step of the domain loop and of the lead loop that
\* makes a FindPeople or DraftMessage call appends at least one log entry
\* and performs a progress update before the next unit starts.
C9_LogAndProgressPerCall ==
    [][UnitCall => (Len(logs') > Len(logs) /\ Len(progress_hist') > Len(progress_hist))]_vars

\* ----------------------------------------------------------------- C10
\* C10 as stated: in the step that sets the status to completed,
\* result_count becomes the number of leads persisted for the session.
C10_CountAtCompletion ==
    [][(status # "completed" /\ status' = "completed") => result_count' = Len(leads')]_vars

\* ----------------------------------------------------------------- C11
\* C11: the percent values written by set_progress during one run form a
\* non-decreasing sequence, on every path, including those where a
\* FindPeople call raises or a lead is skipped or fails in drafting.
C11_ProgressMonotonic ==
    \A i, j \in 1..Len(progress_hist) : i < j => progress_hist[i] <= progress_hist[j]

\* a completed run with two domains, one of whose FindPeople calls raised
\* (no progress write for it), and a lead skipped in the lead loop
C11_Witness ==
    /\ pc = "done"
    /\ status = "completed"
    /\ Len(unique_domains) = 2
    /\ \E d \in Range(unique_domains) : fp_outcome[d] = "raise"
    /\ \E k \in 1..Len(logs) : logs[k].step = "generate" /\ logs[k].emoji = "skip"

\* ----------------------------------------------------------------- C12
\* the band of a stage, in tenths of a percent
InBand(st, pct10) ==
    CASE st = "searching"  -> 50 <= pct10 /\ pct10 <= 300
      [] st = "enriching"  -> 350 <= pct10 /\ pct10 <= 650
      [] st = "generating" -> 700 <= pct10 /\ pct10 <= 950
      [] st = "completed"  -> pct10 = 1000
      [] OTHER -> FALSE

\* C12 as stated: every value written by set_progress lies in the band of
\* the session status at the time of the write (searching [5,30],
\* enriching [35,65], generating [70,95], completed exactly 100).
C12_ProgressInBand ==
    [][\A k \in (Len(progress_hist) + 1)..Len(progress_hist') :
          InBand(status', progress_hist'[k])]_vars

\* ----------------------------------------------------------------- C13
IsPrefix(a, b) == Len(a) <= Len(b) /\ SubSeq(b, 1, Len(a)) = a

IsSuffix(a, b) == Len(a) <= Len(b) /\ SubSeq(b, Len(b) - Len(a) + 1, Len(b)) = a

\* C13: a poller that calls get_pipeline_status with after = the number of
\* entries it has received has, at every moment, received a prefix of the
\* run's log in append order (no gap, no duplicate), and right after each
\* poll it has received every entry appended so far, however its polls
\* interleave with the appends (the log of the run is not cleared).
C13_PollerSeesEachEntryOnce ==
    /\ [](("r1" \notin cleared) => IsPrefix(received, appended["r1"]))
    /\ [][("r1" \notin cleared /\ last_op'.op = "poll") => received' = appended'["r1"]]_vars

\* the poller has polled between two appends: it holds some entries, the
\* run has appended more since
C13_Witness ==
    /\ "r1" \notin cleared
    /\ received # <<>>
    /\ Len(received) < Len(appended["r1"])
    /\ \E k \in 1..Len(appended["r1"]) : appended["r1"][k] # appended["r1"][1]

\* ----------------------------------------------------------------- C14
\* C14 as stated, for every integer offset: for offsets a < b the entries
\* get_logs returns for b are a suffix of those it returns for a (raising
\* the offset never brings back an entry the lower offset left out).
C14_ReadMonotonic ==
    \A r \in RunIds : \A a, b \in Offsets :
       a < b => IsSuffix(get_logs(_logs, r, b), get_logs(_logs, r, a))

\* ----------------------------------------------------------------- C15
\* C15: under any interleaving of add_log and set_progress calls of
\* concurrently executing runs, the log of each run is exactly the sequence
\* of entries appended for that run, in its append order, and an operation
\* on one run changes neither the log nor the progress of another run.
C15_RunsIsolated ==
    /\ [](\A r \in RunIds : get_logs(_logs, r, 0) = appended[r])
    /\ [][\A q \in RunIds :
             q # last_op'.run =>
                /\ get_logs(_logs', q, 0) = get_logs(_logs, q, 0)
                /\ get_progress(_progress', q) = get_progress(_progress, q)]_vars

\* two runs have interleaved their appends and progress writes, with
\* different content
C15_Witness ==
    /\ cleared = {}
    /\ Len(appended["r1"]) = MaxLog
    /\ Len(appended["r2"]) = MaxLog
    /\ appended["r1"] # appended["r2"]
    /\ "r1" \in DOMAIN _progress /\ "r2" \in DOMAIN _progress
    /\ _progress["r1"] # _progress["r2"]

\* ----------------------------------------------------------------- C16
\* C16: every operation on the store other than clear (add_log,
\* set_progress, a poll, a read) leaves each run's existing entries in
\* place and unchanged: the old log is a prefix of the new one.
C16_AppendOnly ==
    [][last_op'.op # "clear" =>
          \A r \in RunIds : IsPrefix(get_logs(_logs, r, 0), get_logs(_logs', r, 0))]_vars

\* a run with a full log and a progress tuple, read after its last write
C16_Witness ==
    /\ cleared = {}
    /\ Len(get_logs(_logs, "r1", 0)) = MaxLog
    /\ "r1" \in DOMAIN _progress
    /\ last_op = [op |-> "read", run |-> "r1"]

\* ----------------------------------------------------------------- C17
\* C17: for a run that was never written and for a run after clear,
\* get_logs returns the empty sequence for every offset and get_progress
\* returns step "" with pct 0; clear changes neither the log nor the
\* progress of any other run.
C17_MissingRunReadsEmpty ==
    /\ [](\A r \in RunIds :
            life[r] \in {"never", "cleared"} =>
               /\ \A o \in Offsets : get_logs(_logs, r, o) = <<>>
               /\ get_progress(_progress, r) = NoProgress)
    /\ [][last_op'.op = "clear" =>
             \A q \in RunIds :
                q # last_op'.run =>
                   /\ (q \in DOMAIN _logs') = (q \in DOMAIN _logs)
                   /\ (q \in DOMAIN _progress') = (q \in DOMAIN _progress)
                   /\ get_logs(_logs', q, 0) = get_logs(_logs, q, 0)
                   /\ get_progress(_progress', q) = get_progress(_progress, q)]_vars

\* run r1 was written (log and progress) and then cleared while r2, never
\* cleared, keeps its log and progress
C17_Witness ==
    /\ life["r1"] = "cleared"
    /\ last_op = [op |-> "clear", run |-> "r1"]
    /\ cleared = {"r1"}
    /\ Len(get_logs(_logs, "r2", 0)) = MaxLog
    /\ "r2" \in DOMAIN _progress

\* ----------------------------------------------------------------- C18
\* number of tasks of the fan-out that are inside their semaphore
InFlight(pos) == Cardinality({t \in DOMAIN task : task[t] = pos})

\* C18: at no moment are more than 5 page fetches in flight and at no
\* moment more than 5 contact-enrichment requests, whatever the batch
\* sizes, also with the batches of two runs executing concurrently.
C18_AtMostFiveInFlight ==
    /\ InFlight("fetching") <= 5
    /\ InFlight("requesting") <= 5
    /\ InFlight("fetching") = ScrapeLimit - _semaphore
    /\ InFlight("requesting") = EnrichLimit - _enrich_semaphore

\* five fetches in flight while further items of the same batch and an
\* item of the other run wait for a slot
C18_Witness ==
    /\ InFlight("fetching") = 5
    /\ \E k \in 1..batch["r1"] : task[<<"r1", k>>] = "queued"
    /\ \E k \in 1..batch["r1"] : task[<<"r1", k>>] = "fetching"
    /\ batch["r2"] = 1 /\ task[<<"r2", 1>>] \in {"queued", "fetching"}

\* ----------------------------------------------------------------- C19
\* C19: when scrape_many has returned, every item of its batch has
\* completed or failed, and its result list has exactly one entry per
\* item, in item order, flagged as failure exactly for the failed items.
C19_FullJoin ==
    \A r \in RunIds :
       (fan_kind = "scrape" /\ returned[r]) =>
          /\ \A k \in 1..batch[r] : task[<<r, k>>] \in ScrapeDone
          /\ Len(results[r]) = batch[r]
          /\ \A k \in 1..batch[r] : results[r][k].error = (task[<<r, k>>] # "ok")

\* a full batch has returned with successes, error results and an
\* exception among its items
C19_Witness ==
    /\ fan_kind = "scrape"
    /\ returned["r1"]
    /\ batch["r1"] = MaxBatch
    /\ \E k \in 1..batch["r1"] : task[<<"r1", k>>] = "ok"
    /\ \E k \in 1..batch["r1"] : task[<<"r1", k>>] = "error"
    /\ \E k \in 1..batch["r1"] : task[<<"r1", k>>] = "raised"

\* ----------------------------------------------------------------- C20
\* the reference grading over the four predicates
ReferenceGrade(name, email, social, title) ==
    IF ~name /\ ~email /\ ~social THEN "skip"
    ELSE IF name /\ email /\ title THEN "high"
    ELSE IF name /\ (email \/ social \/ title) THEN "medium"
    ELSE "skip"

C21_JunkExactly ==
    junk_out # <<>> =>
       LET name == Truthy(Strip(lead_in.first_name)) \/ Truthy(Strip(lead_in.last_name))
           email == Truthy(Strip(lead_in.email))
           social == Truthy(Strip(lead_in.linkedin_url))
           company == Truthy(Strip(lead_in.company_name))
       IN  /\ junk_out[1] = ((~name /\ ~email /\ ~social) \/ (~name /\ ~company))
           /\ (name => junk_out[1] = FALSE)

\* a nameless lead with an email and a whitespace-only company name is junk
\* by the second rule alone
C21_Witness ==
    /\ junk_out = <<TRUE>>
    /\ lead_in.first_name = "" /\ lead_in.last_name = " "
    /\ lead_in.email = "x"
    /\ lead_in.company_name = " "

\* ----------------------------------------------------------------- C22
\* the hits of the queries that did not fail, noise dropped, in the order
\* search meets them
Encountered ==
    Flatten([k \in 1..Len(per_query) |->
                IF per_query[k].raise THEN <<>> ELSE _search_single(per_query[k].organic)])

\* C22: the list search returns never holds two candidates with the same
\* URL, whether the duplicates come from one query or from different
\* queries; of the candidates that share a URL exactly one is kept, the
\* first encountered (a hit without URL is no candidate: it is dropped).
C22_DedupeByUrl ==
    (search_out # <<>> /\ key_ok) =>
       LET out == search_out[1].items
           enc == Encountered
       IN  /\ \A i, j \in 1..Len(out) : i # j => out[i].url # out[j].url
           /\ \A k \in 1..Len(enc) :
                 Truthy(enc[k].url) =>
                    LET first == CHOOSE f \in 1..Len(enc) :
                                    /\ enc[f].url = enc[k].url
                                    /\ \A g \in 1..Len(enc) : enc[g].url = enc[k].url => f <= g
                    IN  /\ Cardinality({i \in 1..Len(out) : out[i].url = enc[k].url}) = 1
                        /\ \E i \in 1..Len(out) : out[i] = enc[first]
           /\ \A i \in 1..Len(out) : \E k \in 1..Len(enc) : out[i] = enc[k]

\* the same link came twice from the first query, under two titles, and
\* again from the second query; the first of the three is the one kept
C22_Witness ==
    /\ search_out # <<>> /\ key_ok
    /\ Len(per_query) = 2
    /\ ~per_query[1].raise /\ ~per_query[2].raise
    /\ Len(per_query[1].organic) = 2
    /\ per_query[1].organic[1].title = "Acme again"
    /\ per_query[1].organic[2].title = "Acme"
    /\ Len(per_query[2].organic) = 1
    /\ per_query[2].organic[1].title = "Acme"
    /\ Len(search_out[1].items) = 1
    /\ search_out[1].items[1].title = "Acme again"

\* ----------------------------------------------------------------- C23
\* C23 as stated: every generate_email call of a run carries the tone and
\* the channel of the request the run's session was created for.
C23_DraftUsesRequestedToneAndChannel ==
    \A c \in draft_calls :
       /\ c.tone = payloads[c.session_id].tone
       /\ c.channel = payloads[c.session_id].channel

\* ----------------------------------------------------------------- C24
\* number of queued background tasks of a session
Queued(sid) == Cardinality({t \in bg_tasks : t.session_id = sid})

\* C24: a request that is accepted inserts exactly one session row, with
\* status pending, queues exactly one background task for it and answers
\* with that session in status pending, before any step of its run (a
\* rejected request inserts and queues nothing); a session's status changes
\* only once its row exists and its run was started, and the run of a
\* session is started at most once, from the one task queued for it.
C24_FireAndForget ==
    /\ [](\A sid \in 1..Len(sessions) :
             /\ Queued(sid) + launches[sid] = 1
             /\ (sid \in DOMAIN runs) = (launches[sid] = 1)
             /\ sessions[sid].status # "pending" => launches[sid] = 1)
    /\ [][Len(responses') > Len(responses) =>
             LET r == responses'[Len(responses')]
             IN  IF r.code = 202
                 THEN /\ Len(sessions') = Len(sessions) + 1
                      /\ r.session_id = Len(sessions')
                      /\ sessions'[r.session_id].status = "pending"
                      /\ r.status = "pending"
                      /\ SubSeq(sessions', 1, Len(sessions)) = sessions
                      /\ Cardinality({t \in bg_tasks' : t.session_id = r.session_id}) = 1
                      /\ r.session_id \notin DOMAIN runs'
                 ELSE /\ sessions' = sessions
                      /\ bg_tasks' = bg_tasks]_vars
    /\ [][\A sid \in 1..Len(sessions) :
             sessions'[sid].status # sessions[sid].status => sid \in DOMAIN runs]_vars

\* two requests were accepted; the run of the first has completed, the run
\* of the second is generating and has called generate_email; no task is
\* left on the queue
C24_Witness ==
    /\ Len(sessions) = 2
    /\ Len(responses) = 2
    /\ responses[2].code = 202
    /\ sessions[1].status = "completed"
    /\ sessions[2].status = "generating"
    /\ bg_tasks = {}
    /\ \E c \in draft_calls : c.session_id = 2

\* ----------------------------------------------------------------- C25
\* C25: a run whose merged error-free search result set is non-empty and
\* which no internal fault hits is never failed, and when it has ended
\* its status is completed, whatever InterpretQuery, the single Search
\* queries, FetchPage, FindPeople and DraftMessage do.  That the run does
\* end is C2_EventuallyTerminal.
C25_ProviderFailuresNotFatal ==
    (valid_results # <<>> /\ ~Faulted) =>
        /\ status # "failed"
        /\ pc = "done" => status = "completed"

\* a run without internal fault has completed although a page fetch
\* failed, a FindPeople call raised and a DraftMessage call raised
C25_Witness ==
    /\ pc = "done"
    /\ status = "completed"
    /\ ~Faulted
    /\ \E k \in 1..Len(scrape_out) : scrape_out[k] = "error"
    /\ \E d \in Domains : fp_outcome[d] = "raise"
    /\ \E k \in 1..Len(logs) : logs[k].step = "generate" /\ logs[k].emoji = "x"

\* ----------------------------------------------------------------- C26
ErrorEntries == {k \in 1..Len(logs) : logs[k].step = "error"}

CallsOf(op) == {k \in 1..Len(calls) : calls[k][1] = op}

\* C27: no provider call is issued twice for the same unit of work:
\* InterpretQuery at most once per run, Search at most once per derived
\* query, FetchPage at most once per URL, FindPeople at most once per
\* domain, DraftMessage at most once per lead, also after a failed call.
C27_NoRetry ==
    /\ \A i, j \in 1..Len(calls) : i < j => calls[i] # calls[j]
    /\ Cardinality(CallsOf("InterpretQuery")) <= 1
    /\ Cardinality(CallsOf("Search")) <= Len(search_queries)
    /\ Cardinality(CallsOf("FetchPage")) <= Len(db_results)
    /\ Cardinality(CallsOf("FindPeople")) <= Len(unique_domains)
    /\ Cardinality(CallsOf("DraftMessage")) <= Len(sel)

\* a finished run that made calls of all five kinds, among them a failed
\* page fetch, a FindPeople call that returned an error and a DraftMessage
\* call that returned an error
C27_Witness ==
    /\ pc = "done"
    /\ \A op \in {"InterpretQuery", "Search", "FetchPage", "FindPeople", "DraftMessage"} :
          CallsOf(op) # {}
    /\ \E k \in 1..Len(scrape_out) : scrape_out[k] = "error"
    /\ \E d \in Domains : fp_outcome[d] = "error"
    /\ \E k \in 1..Len(logs) : logs[k].step = "generate" /\ logs[k].emoji = "warn"
                                  /\ logs[k].about # ""

\* ----------------------------------------------------------------- C28
\* number of DraftMessage calls made for a lead
DraftCallsFor(id) ==
    Cardinality({k \in 1..Len(calls) : calls[k] = <<"DraftMessage", ToString(id)>>})

\* every loaded lead has had its turn: one call unless it was skipped
EachDraftedOnce ==
    \A k \in 1..Len(sel) :
       DraftCallsFor(sel[k]) = IF has_any_info(LeadById(sel[k])) THEN 1 ELSE 0

\* C28: a DraftMessage failure (error result or exception) never aborts the
\* lead loop: the loop is left only after the last loaded lead, every
\* selected lead that was not skipped has then had exactly one DraftMessage
\* call, whatever happened to the leads before it, and the run goes on to
\* completed: a run that had leads to draft and ends without internal fault
\* ends completed.
C28_DraftLoopNeverAborts ==
    /\ [](pc \in {"commit_drafts", "finish", "finish_log"} =>
            (idx = Len(sel) /\ EachDraftedOnce))
    /\ [](pc = "finish_log" => status = "completed")
    /\ []((pc = "done" /\ sel # <<>> /\ ~Faulted) => (EachDraftedOnce /\ status = "completed"))
    /\ [][(pc = "draft_loop" /\ pc' # pc) => (pc' = "commit_drafts" /\ idx' = Len(sel))]_vars

\* a completed run in which the DraftMessage call of one lead raised and a
\* later lead was drafted all the same
C28_Witness ==
    /\ pc = "done"
    /\ status = "completed"
    /\ Len(sel) = 2
    /\ \E i, j \in 1..Len(logs) :
          /\ i < j
          /\ logs[i].step = "generate" /\ logs[i].emoji = "x"
          /\ logs[j].step = "generate" /\ logs[j].emoji = "check"

\* ----------------------------------------------------------------- C29
\* C29 as stated: in the lead loop the DraftMessage call is skipped for a
\* lead if and only if the lead has no first name, no last name, no
\* company name and no scraped context.
C29_SkipIffNoInfo ==
    [][(pc = "draft_loop" /\ idx' = idx + 1) =>
          LET lead == LeadById(sel[idx + 1])
          IN  (calls' = calls) <=>
                 /\ ~Truthy(Strip(lead.first_name))
                 /\ ~Truthy(Strip(lead.last_name))
                 /\ ~Truthy(Strip(lead.company_name))
                 /\ ~Truthy(Strip(lead.scraped_context))]_vars

\* ----------------------------------------------------------------- C30
\* C30: when parse_query fails the run stores the (default) snapshot all
\* the same, hands Search exactly one query, the raw request text, and
\* fails only for an empty search or an internal fault; in every run the
\* list handed to Search is non-empty, and no run gets past the search
\* without the snapshot stored.
C30_ParseFailureDegrades ==
    /\ [](parsed_stored => search_queries # <<>>)
    /\ []((parsed.error /\ parsed_stored) => search_queries = <<query>>)
    /\ [](pc \in {"fail_empty", "store_results", "enrich_loop", "commit_leads", "cleanup",
                   "set_generating", "load_selected", "shortcut", "shortcut_log",
                   "draft_loop", "commit_drafts", "finish", "finish_log"} => parsed_stored)
    /\ []((pc = "done" /\ ~Faulted) => parsed_stored)
    /\ []((parsed.error /\ status = "failed") => (EmptySearch \/ Faulted))

\* parse_query failed and the run completed after searching once, with
\* the raw request text
C30_Witness ==
    /\ parsed.error
    /\ pc = "done"
    /\ status = "completed"
    /\ parsed_stored
    /\ CallsOf("Search") # {}
    /\ \A k \in CallsOf("Search") : calls[k] = <<"Search", query>>
    /\ Cardinality(CallsOf("Search")) = 1


\* ----------------------------------------------------------------- C31
\* the units of the calls of one operation made by the many-results run
CapUnits(op) == {cap_calls[k][2] : k \in {j \in 1..Len(cap_calls) : cap_calls[j][1] = op}}

CapCount(op) == Cardinality({k \in 1..Len(cap_calls) : cap_calls[k][1] = op})

\* C31: in every run FetchPage is invoked for at most 25 URLs and
\* FindPeople for at most 15 domains, and no domain is enriched twice,
\* however many results and distinct domains the search returned.
C31_CapsHold ==
    /\ CapCount("FetchPage") <= 25
    /\ CapCount("FindPeople") <= 15
    /\ CapCount("FindPeople") = Cardinality(CapUnits("FindPeople"))

\* a finished run over more than 25 URLs and more than 15 domains that
\* made exactly 25 FetchPage and 15 FindPeople calls
C31_Witness ==
    /\ cap_pc = "done"
    /\ Len(cap_rows) > 25
    /\ Cardinality({cap_rows[k].domain : k \in 1..Len(cap_rows)} \ {""}) > 15
    /\ CapCount("FetchPage") = 25
    /\ CapCount("FindPeople") = 15

\* ----------------------------------------------------------------- C32
\* C32: FetchPage never raises to its caller: whenever the fetch of the URL
\* fails (timeout, HTTP error status, non-HTML content type, any other
\* exception) it returns a result for that URL with the error set, and a
\* result with the error set contributes no entry to the URL -> context map.
C32_FetchNeverRaises ==
    /\ fetch_pc # "raised"
    /\ (fetch_pc \in {"returned", "done"} /\ fetch_failure # "none") =>
          /\ fetch_result.url = fetch_url
          /\ Truthy(fetch_result.error)
    /\ fetch_pc = "done" =>
          /\ fetch_final = <<fetch_result>>
          /\ \A k \in 1..Len(fetch_final) :
                Truthy(fetch_final[k].error) => fetch_final[k].url \notin DOMAIN fetch_map

\* a fetch that failed while the page was parsed, after the title had been
\* stored, was handed to the orchestrator and left the map empty
C32_Witness ==
    /\ fetch_pc = "done"
    /\ fetch_failure = "other"
    /\ Truthy(fetch_result.title)
    /\ fetch_final[1].url = fetch_url
    /\ fetch_map = EmptyMap

\* ----------------------------------------------------------------- C33
\* valid_people = [p for p in people if "error" not in p]
ReturnedContacts == IF enr_out = <<>> \/ enr_out[1].error THEN <<>> ELSE enr_out[1].people

\* C33: every contact FindPeople returns to the orchestrator is graded
\* high or medium by Classify, also a contact whose enrichment request
\* failed and for which the partial search stub was substituted.
C33_ReturnedContactsPassGate ==
    \A k \in 1..Len(ReturnedContacts) : _lead_quality(ReturnedContacts[k]) # "skip"

\* both enrichment requests of a search answer failed: search_people has
\* returned one stub as the contact and dropped the other
C33_Witness ==
    /\ \E k \in 1..Len(enr_items) :
          /\ enr_items[k].kind \in {"status", "other"}
          /\ _stub_to_result(enr_items[k].stub, EnrDomain) \in Range(ReturnedContacts)
    /\ Len(ReturnedContacts) = 1
    /\ Len(enr_items) = 2
    /\ \A k \in 1..Len(enr_items) : enr_items[k].kind \in {"status", "other"}

\* ----------------------------------------------------------------- C34
\* api/pipeline.py get_pipeline_status served in the current state: the
\* status of the session row and the pct of pipeline_log.get_progress (the
\* handler is a plain `def`, so it runs in the thread pool while the run
\* is between two statements)
StatusResponse == [status |-> status, progress_pct |-> progress.pct]

\* C34: a GetStatus response that reports status completed also reports
\* percent 100, wherever the poll falls among the run's final steps.
C34_CompletedReportsFull ==
    StatusResponse.status = "completed" => StatusResponse.progress_pct = 1000

\* ----------------------------------------------------------------- C35
\* the step is a DraftMessage call that failed (error result or exception)
DraftFailedStep == pc = "draft_loop" /\ calls' # calls /\ success_count' = success_count

\* the step is a step of the run (the editing endpoint counts its requests)
RunStep == edits' = edits

\* C35: a DraftMessage call that fails for a lead leaves that lead's
\* subject, body and approach unchanged and changes no other lead (neither
\* the rows nor the pending drafts, so the later commit writes nothing for
\* it); no step of a run ever modifies the is_selected flag of a lead.
C35_FailedDraftIsNoOp ==
    /\ [][DraftFailedStep => (leads' = leads /\ drafts' = drafts)]_vars
    /\ [][RunStep =>
            \A j \in 1..Len(leads), k \in 1..Len(leads') :
               leads'[k].id = leads[j].id => leads'[k].is_selected = leads[j].is_selected]_vars
    /\ [](\A k \in 1..Len(leads) :
             leads[k].id \notin DOMAIN drafts =>
                /\ leads[k].personalized_email = ""
                /\ leads[k].email_subject = ""
                /\ leads[k].suggested_approach = "")

\* a completed run in which one lead got its draft, the call for another
\* lead failed and left its fields empty, and a lead deselected by a PATCH
\* during the run is still deselected
C35_Witness ==
    /\ pc = "done"
    /\ status = "completed"
    /\ \E j, k \in 1..Len(leads) :
          /\ leads[j].personalized_email = "Body"
          /\ leads[k].personalized_email = ""
          /\ leads[k].email_subject = ""
          /\ <<"DraftMessage", ToString(leads[k].id)>> \in Range(calls)
    /\ \E k \in 1..Len(leads) : ~leads[k].is_selected

\* ----------------------------------------------------------------- C36
\* C36: for every contact, Classify(contact) different from skip implies
\* that the Lead materialized from it is not junk per IsJunkLead, so the
\* junk-removal pass does not delete it.
C36_GradedContactIsNotJunk ==
    (quality_out \in {"high", "medium"} /\ junk_out # <<>>) => junk_out = <<FALSE>>

\* a contact with a last name and a title only, no email, no social URL
\* and no company, graded medium, whose Lead row passed the junk test
C36_Witness ==
    /\ quality_out = "medium"
    /\ junk_out = <<FALSE>>
    /\ lead_in = LeadOf(person_in)
    /\ ~Truthy(Strip(person_in.first_name))
    /\ ~Truthy(Strip(person_in.email))
    /\ ~Truthy(Strip(person_in.linkedin_url))
    /\ ~Truthy(Strip(person_in.organization_name))

\* ----------------------------------------------------------------- C37
\* the step serves a request and answers it with 400
RejectStep ==
    /\ Len(responses') = Len(responses) + 1
    /\ responses'[Len(responses')].code = 400

AcceptedIds == {responses[k].session_id : k \in {j \in 1..Len(responses) : responses[j].code = 202}}

\* C37: a StartRun request that is rejected (blank request text, or a
\* missing search or query-interpreter key) creates no Session, launches no
\* run and writes nothing to the ActivityLog: the step changes none of
\* them, and sessions, runs and log entries exist for accepted requests only.
C37_RejectedLeavesNoTrace ==
    /\ [][RejectStep =>
            /\ sessions' = sessions
            /\ bg_tasks' = bg_tasks
            /\ runs' = runs
            /\ launches' = launches
            /\ _logs' = _logs
            /\ logs' = logs]_vars
    /\ [](/\ {sessions[k].id : k \in 1..Len(sessions)} = AcceptedIds
          /\ {t.session_id : t \in bg_tasks} \cup DOMAIN runs \subseteq AcceptedIds
          /\ DOMAIN _logs \subseteq AcceptedIds)

\* a request was rejected for missing keys and left nothing behind, the
\* next one was accepted and its run has written to the log of its session
C37_Witness ==
    /\ Len(responses) = 2
    /\ responses[1].code = 400
    /\ responses[1].detail # <<"Query cannot be empty">>
    /\ responses[2].code = 202
    /\ Len(sessions) = 1
    /\ DOMAIN _logs = {1}

\* ----------------------------------------------------------------- C38
\* str.endswith
EndsWith(s, t) == Len(t) <= Len(s) /\ SubSeq(s, Len(s) - Len(t) + 1, Len(s)) = t

\* the domain is a denylisted domain or a subdomain of one
IsDenylisted(domain) ==
    \E noise \in NOISE_DOMAINS :
       Lower(domain) = noise \/ EndsWith(Lower(domain), "." \o noise)

\* the hits with a link that the answered queries delivered
Delivered ==
    {it \in UNION {Range(per_query[k].organic) : k \in {j \in 1..Len(per_query) : ~per_query[j].raise}} :
        Truthy(it.link)}

\* C38: Search drops a candidate as noise only if its domain is a
\* denylisted domain or a subdomain of one; a candidate whose domain merely
\* contains a denylisted name inside another domain name is retained.
C38_NoiseOnlyByDomain ==
    (search_out # <<>> /\ key_ok) =>
       \A it \in Delivered :
          ~IsDenylisted(StripWww(it.host)) =>
             \E i \in 1..Len(search_out[1].items) : search_out[1].items[i].url = it.link
====
